---- MODULE Spec2Model ----
(***************************************************************************)
(* A model of the quiz engine of quizme: the Report accumulator, the       *)
(* Question event and the event generator FAQ.__iter__ of teach_me.py,     *)
(* over the structural model and the category builders of quizcore.py.     *)
(*                                                                         *)
(* The specifications share the variables:                                 *)
(*   ReportSpec    a caller that uses the Report API directly, in any order *)
(*   ProblemsSpec  the same caller, reading problems through get_problems  *)
(*   Spec          one session: the generator, pulled by a driver that may *)
(*                 answer the Question events it holds                     *)
(*   BankSpec      a test bank is parsed, the structural model is made of  *)
(*                 it and its categories are built                         *)
(*   RestartSpec   the generator of one FAQ instance, started again after  *)
(*                 it has ended                                            *)
(*   DriverSpec    one session driven by QuizMe.execute_quiz, event after  *)
(*                 event through its dialogs                               *)
(***************************************************************************)
EXTENDS Integers, Sequences, FiniteSets, TLC

VARIABLES
    document,    \* the test-bank file the driver opens, as its tree of XML elements
    bank,        \* the node tree BankParser.parse returns and FAQ is given
    test,        \* FAQ.test: the UnitTest built from the document
    built,       \* the q_and_a list of every category, by <<chapter, section, category>>
    build_calls, \* history: the calls of category.build() the generators made, in order
    done,        \* QuizMe.done of the driver
    last_exit,   \* QuizMe.last_exit of the driver
    pc,          \* where the generator FAQ.__iter__ is suspended
    chapter_i,   \* position of the loop over unittest.chapters
    section_i,   \* position of the loop over chapter.sections
    q_and_a,     \* the generator's local list q_and_a (shuffled)
    question_i,  \* position of the loop over q_and_a
    unittest_report, chapter_report, section_report,  \* the generator's locals
    reports,     \* every Report object, by identity (its index)
    questions,   \* every Question object the generator has made
    events,      \* the events the generator has yielded, in order
    gens,        \* every generator object returned by Report.get_problems
    last         \* the last call made and how it ended

vars == <<document, bank, test, built, build_calls, done, last_exit, pc, chapter_i, section_i, q_and_a, question_i,
          unittest_report, chapter_report, section_report,
          reports, questions, events, gens, last>>

engine_vars == <<document, bank, test, built, build_calls, done, last_exit, pc, chapter_i, section_i, q_and_a, question_i,
                 unittest_report, chapter_report, section_report,
                 questions, events>>

(***************************************************************************)
(* Bounds of the model.                                                    *)
(***************************************************************************)
MaxReports == 2
MaxWork == 2
MaxGens == 1

None == "None"
\* No file has been opened: the tree was not read from one.
NoFile == [name |-> "None", attributes |-> <<>>, text |-> "", children |-> <<>>]
NoError == "None"
NoParent == 0

\* The value a call returned: nothing, or one value.
Nothing == <<>>
Returned(v) == <<v>>

Outcome(err, rs, v) == [error |-> err, reports |-> rs, value |-> v]

----------------------------------------------------------------------------
(***************************************************************************)
(* teach_me.Report                                                         *)
(***************************************************************************)

\* Report.__init__: a fresh, Open report with no answers.
NewReport(level, parent) ==
    [level |-> level, parent |-> parent, right |-> 0, wrong |-> 0,
     problems |-> <<>>, finalized |-> FALSE]

right_answer_unguarded(rs, r) ==
    Outcome(NoError, [rs EXCEPT ![r].right = @ + 1], Nothing)

right_answer(rs, r) ==
    IF rs[r].finalized
    THEN Outcome("Report is finalized!", rs, Nothing)
    ELSE Outcome(NoError, [rs EXCEPT ![r].right = @ + 1], Nothing)

wrong_answer_unguarded(rs, r) ==
    Outcome(NoError, [rs EXCEPT ![r].wrong = @ + 1], Nothing)

wrong_answer(rs, r) ==
    IF rs[r].finalized
    THEN Outcome("Report is finalized!", rs, Nothing)
    ELSE Outcome(NoError, [rs EXCEPT ![r].wrong = @ + 1], Nothing)

review(rs, r, question, answer) ==
    IF rs[r].finalized
    THEN Outcome("Report is finalized!", rs, Nothing)
    ELSE Outcome(NoError,
                 [rs EXCEPT ![r].problems = Append(@, <<question, answer>>)],
                 Nothing)

RollUp_without_wrong(rs, r) ==
    LET parent == rs[r].parent
        locked == [rs EXCEPT ![r].finalized = TRUE]
    IN  IF parent # NoParent
        THEN [locked EXCEPT ![parent].right = @ + rs[r].right,
                            ![parent].problems = @ \o rs[r].problems]
        ELSE locked

RollUp_prepend(rs, r) ==
    LET parent == rs[r].parent
        locked == [rs EXCEPT ![r].finalized = TRUE]
    IN  IF parent # NoParent
        THEN [locked EXCEPT ![parent].right = @ + rs[r].right,
                            ![parent].wrong = @ + rs[r].wrong,
                            ![parent].problems = rs[r].problems \o @]
        ELSE locked

RollUp_without_problems(rs, r) ==
    LET parent == rs[r].parent
        locked == [rs EXCEPT ![r].finalized = TRUE]
    IN  IF parent # NoParent
        THEN [locked EXCEPT ![parent].right = @ + rs[r].right,
                            ![parent].wrong = @ + rs[r].wrong]
        ELSE locked

\* The roll-up of finalize: the report is locked and its parent, if it has
\* one, receives its counts and its problems.
RollUp(rs, r) ==
    LET parent == rs[r].parent
        locked == [rs EXCEPT ![r].finalized = TRUE]
    IN  IF parent # NoParent
        THEN [locked EXCEPT ![parent].right = @ + rs[r].right,
                            ![parent].wrong = @ + rs[r].wrong,
                            ![parent].problems = @ \o rs[r].problems]
        ELSE locked

finalize_unguarded(rs, r) ==
    Outcome(NoError, RollUp(rs, r), Nothing)

finalize(rs, r) ==
    IF rs[r].finalized
    THEN Outcome("Report is finalized!", rs, Nothing)
    ELSE Outcome(NoError, RollUp(rs, r), Nothing)

right(rs, r) ==
    IF ~rs[r].finalized
    THEN Outcome("Report is not finalized!", rs, Nothing)
    ELSE Outcome(NoError, rs, Returned(rs[r].right))

wrong(rs, r) ==
    IF ~rs[r].finalized
    THEN Outcome("Report is not finalized!", rs, Nothing)
    ELSE Outcome(NoError, rs, Returned(rs[r].wrong))

total(rs, r) ==
    IF ~rs[r].finalized
    THEN Outcome("Report is not finalized!", rs, Nothing)
    ELSE Outcome(NoError, rs, Returned(rs[r].right + rs[r].wrong))

final_inverted(rs, r) == rs[r].parent # NoParent

final(rs, r) == rs[r].parent = NoParent

\* teach_me.Answer: the review entry made of a Record and the answer given.
Answer(answer, record) ==
    [answer |-> answer, category |-> record.kind, question |-> record.question,
     choices |-> record.choices, right |-> record.answer]

\* Report.get_problems is a generator function: the call runs none of its body
\* and returns a generator object suspended before the first statement.
get_problems(r) == [report |-> r, state |-> "created", it |-> 0]

\* One next() on that generator: [error, value, gen].
GenStep(err, v, g) == [error |-> err, value |-> v, gen |-> g]

GenLoop_backwards(rs, g) ==
    LET problems == rs[g.report].problems
    IN  IF g.it < Len(problems)
        THEN GenStep(NoError,
                     Returned(Answer(problems[Len(problems) - g.it][2],
                                     problems[Len(problems) - g.it][1])),
                     [g EXCEPT !.state = "suspended", !.it = @ + 1])
        ELSE GenStep("StopIteration", Nothing, [g EXCEPT !.state = "closed"])

GenLoop(rs, g) ==
    LET problems == rs[g.report].problems
    IN  IF g.it < Len(problems)
        THEN GenStep(NoError,
                     Returned(Answer(problems[g.it + 1][2], problems[g.it + 1][1])),
                     [g EXCEPT !.state = "suspended", !.it = @ + 1])
        ELSE GenStep("StopIteration", Nothing, [g EXCEPT !.state = "closed"])

get_problems_next(rs, g) ==
    CASE g.state = "created" ->
            IF ~rs[g.report].finalized
            THEN GenStep("Report is not finalized!", Nothing,
                         [g EXCEPT !.state = "closed"])
            ELSE GenLoop(rs, g)
      [] g.state = "suspended" -> GenLoop(rs, g)
      [] OTHER -> GenStep("StopIteration", Nothing, g)

----------------------------------------------------------------------------
(***************************************************************************)
(* testbank: the document tree the parser hands over.                      *)
(***************************************************************************)

\* testbank._Node: attr, text and the ordered children; tag is the class.
Node(tag, attr, text, children) ==
    [tag |-> tag, attr |-> attr, text |-> text, children |-> children]

QuestionNode(text) == Node("question", None, text, <<>>)
AnswerNode(text) == Node("answer", None, text, <<>>)
FactNode(kind, qs, as) ==
    Node("fact", kind, "",
         [i \in 1..Len(qs) |-> QuestionNode(qs[i])]
            \o [i \in 1..Len(as) |-> AnswerNode(as[i])])
CategoryNode(type, facts) == Node("category", type, "", facts)
SectionNode(name, categories) == Node("section", name, "", categories)
ChapterNode(name, sections) == Node("chapter", name, "", sections)
TestBankNode(name, chapters) == Node("testbank", name, "", chapters)

----------------------------------------------------------------------------
(***************************************************************************)
(* quizcore: the structural model.  A constructor ends in a value or in    *)
(* the first exception raised, its children being built in order.          *)
(***************************************************************************)

Built(v) == [error |-> NoError, value |-> v]
Raised(err) == [error |-> err, value |-> None]

FirstRaised_last(results) ==
    LET bad == {i \in DOMAIN results : results[i].error # NoError}
    IN  IF bad = {} THEN NoError
        ELSE results[CHOOSE i \in bad : \A j \in bad : i >= j].error

\* list(map(ctor, children)): the values, or the first child's exception.
FirstRaised(results) ==
    LET bad == {i \in DOMAIN results : results[i].error # NoError}
    IN  IF bad = {} THEN NoError
        ELSE results[CHOOSE i \in bad : \A j \in bad : i <= j].error

Values(results) == [i \in DOMAIN results |-> results[i].value]

\* quizcore.Answer.__init__
quizcore_Answer(answer, true_or_false) ==
    IF true_or_false /\ answer.text \notin {"True", "False"}
    THEN Raised("Answer is invalid!")
    ELSE Built(answer.text)

\* quizcore.Question.__init__
quizcore_Question(question) == Built(question.text)

Select(seq, tag) == SelectSeq(seq, LAMBDA child : child.tag = tag)

Fact_needs_questions(fact, true_or_false) ==
    LET results == [i \in DOMAIN fact.children |->
                      IF fact.children[i].tag = "question"
                      THEN quizcore_Question(fact.children[i])
                      ELSE IF fact.children[i].tag = "answer"
                      THEN quizcore_Answer(fact.children[i], true_or_false)
                      ELSE Raised("TypeError")]
        texts(tag) == LET nodes == Select(fact.children, tag)
                      IN  [i \in DOMAIN nodes |-> nodes[i].text]
    IN  IF FirstRaised(results) # NoError THEN Raised(FirstRaised(results))
        ELSE IF texts("answer") = <<>> \/ texts("question") = <<>>
        THEN Raised("Fact is empty!")
        ELSE Built([kind |-> fact.attr, questions |-> texts("question"),
                    answers |-> texts("answer")])

\* quizcore.Fact.__init__
Fact(fact, true_or_false) ==
    LET results == [i \in DOMAIN fact.children |->
                      IF fact.children[i].tag = "question"
                      THEN quizcore_Question(fact.children[i])
                      ELSE IF fact.children[i].tag = "answer"
                      THEN quizcore_Answer(fact.children[i], true_or_false)
                      ELSE Raised("TypeError")]
        texts(tag) == LET nodes == Select(fact.children, tag)
                      IN  [i \in DOMAIN nodes |-> nodes[i].text]
    IN  IF FirstRaised(results) # NoError THEN Raised(FirstRaised(results))
        ELSE IF texts("answer") = <<>> THEN Raised("Fact is empty!")
        ELSE Built([kind |-> fact.attr, questions |-> texts("question"),
                    answers |-> texts("answer")])

\* _Category.__init__, reached through Matching, MultipleChoice, TrueOrFalse.
Category(class, category) ==
    LET results == [i \in DOMAIN category.children |->
                      Fact(category.children[i], class = "TrueOrFalse")]
    IN  IF FirstRaised(results) # NoError THEN Raised(FirstRaised(results))
        ELSE IF results = <<>> THEN Raised("Category is empty!")
        ELSE Built([class |-> class, facts |-> Values(results)])

\* The module's table _CATEGORY.
CATEGORY ==
    [matching |-> "Matching", multiple_choice |-> "MultipleChoice",
     true_or_false |-> "TrueOrFalse"]

\* Section.get_category
get_category(category) ==
    IF category.attr \in DOMAIN CATEGORY
    THEN Category(CATEGORY[category.attr], category)
    ELSE Raised("ValueError")

\* quizcore.Section.__init__
Section(section) ==
    LET results == [i \in DOMAIN section.children |-> get_category(section.children[i])]
    IN  IF FirstRaised(results) # NoError THEN Raised(FirstRaised(results))
        ELSE IF results = <<>> THEN Raised("Section is empty!")
        ELSE Built([name |-> section.attr, categories |-> Values(results)])

\* quizcore.Chapter.__init__
Chapter(chapter) ==
    LET results == [i \in DOMAIN chapter.children |-> Section(chapter.children[i])]
    IN  IF FirstRaised(results) # NoError THEN Raised(FirstRaised(results))
        ELSE IF results = <<>> THEN Raised("Chapter is empty!")
        ELSE Built([name |-> chapter.attr, sections |-> Values(results)])

\* quizcore.UnitTest.__init__
UnitTest(root_node) ==
    LET results == [i \in DOMAIN root_node.children |-> Chapter(root_node.children[i])]
    IN  IF FirstRaised(results) # NoError THEN Raised(FirstRaised(results))
        ELSE IF results = <<>> THEN Raised("UnitTest is empty!")
        ELSE Built([name |-> root_node.attr, chapters |-> Values(results)])

\* FAQ.__init__
FAQ(testbank) == UnitTest(testbank)

----------------------------------------------------------------------------
(***************************************************************************)
(* quizcore: the category builders.  random and the iteration order of a   *)
(* set are choices: build is the set of results one call can have.         *)
(***************************************************************************)

MatchingCHOICES == 25
MultipleChoiceCHOICES == 3

CHOICES(class) ==
    IF class = "Matching" THEN MatchingCHOICES ELSE MultipleChoiceCHOICES
NAME(class) ==
    IF class = "Matching" THEN "Matching" ELSE "Multiple Choice"

\* quizcore.Record
Record(kind, question, choices, answer) ==
    [kind |-> kind, question |-> question, choices |-> choices, answer |-> answer]

Range(seq) == {seq[i] : i \in DOMAIN seq}
Min(a, b) == IF a < b THEN a ELSE b

\* Every order in which the elements of a finite set can be listed.
Orders(S) ==
    {f \in [1..Cardinality(S) -> S] : \A i, j \in 1..Cardinality(S) : f[i] = f[j] => i = j}

\* Fact.build: q_to_a and a_to_q, a pure function of the fact's texts.
q_to_a(fact) == [question \in Range(fact.questions) |-> Range(fact.answers)]
a_to_q(fact) == [answer \in Range(fact.answers) |-> Range(fact.questions)]

\* The facts of one kind, and the dictionaries _MCM.build merges from them.
OfKind(facts, kind) == {i \in DOMAIN facts : facts[i].kind = kind}

KindQuestion_first_fact(facts, kind) ==
    LET qs == UNION {DOMAIN q_to_a(facts[i]) : i \in OfKind(facts, kind)}
    IN  [question \in qs |->
            LET asking == {j \in OfKind(facts, kind) : question \in DOMAIN q_to_a(facts[j])}
            IN  q_to_a(facts[CHOOSE i \in asking : \A j \in asking : i <= j])[question]]

KindQuestion(facts, kind) ==
    LET qs == UNION {DOMAIN q_to_a(facts[i]) : i \in OfKind(facts, kind)}
    IN  [question \in qs |->
            UNION {q_to_a(facts[i])[question] :
                   i \in {j \in OfKind(facts, kind) : question \in DOMAIN q_to_a(facts[j])}}]
KindAnswer(facts, kind) ==
    LET as == UNION {DOMAIN a_to_q(facts[i]) : i \in OfKind(facts, kind)}
    IN  [answer \in as |->
            UNION {a_to_q(facts[i])[answer] :
                   i \in {j \in OfKind(facts, kind) : answer \in DOMAIN a_to_q(facts[j])}}]

\* The keys of the dictionary kinds, in insertion order: each kind at the
\* first fact that has it.
RECURSIVE KindsFrom(_, _, _)
KindsFrom(facts, i, seen) ==
    IF i > Len(facts) THEN seen
    ELSE KindsFrom(facts, i + 1,
                   IF facts[i].kind \in Range(seen) THEN seen
                   ELSE Append(seen, facts[i].kind))
Kinds(facts) == KindsFrom(facts, 1, <<>>)

QuestionRecords_uncapped(class, facts, kind, question) ==
    LET correct == KindQuestion(facts, kind)[question]
        wrongs == DOMAIN KindAnswer(facts, kind) \ correct
    IN  UNION { { Record(NAME(class), question, sample, rightOne) :
                    sample \in Orders(wrongs \cup {rightOne}) } :
                rightOne \in correct }

QuestionRecords_other_correct(class, facts, kind, question) ==
    LET correct == KindQuestion(facts, kind)[question]
        answers == DOMAIN KindAnswer(facts, kind)
    IN  UNION { LET wrongs == answers \ {rightOne}
                    size == Min(Cardinality(wrongs), CHOICES(class))
                    draws == {d \in SUBSET wrongs : Cardinality(d) = size}
                IN  { Record(NAME(class), question, sample, rightOne) :
                        sample \in UNION {Orders(drawn \cup {rightOne}) : drawn \in draws} } :
                rightOne \in correct }

\* The Records one question of a kind can get (lines 134-141).
QuestionRecords(class, facts, kind, question) ==
    LET correct == KindQuestion(facts, kind)[question]
        answers == DOMAIN KindAnswer(facts, kind)
        wrongs == answers \ correct
        size == Min(Cardinality(wrongs), CHOICES(class))
        draws == {d \in SUBSET wrongs : Cardinality(d) = size}
    IN  UNION { { Record(NAME(class), question, sample, rightOne) :
                    sample \in UNION {Orders(drawn \cup {rightOne}) : drawn \in draws} } :
                rightOne \in correct }

\* The Records of one kind: its questions in any order (the iteration of a set).
KindRecords(class, facts, kind) ==
    LET qs == DOMAIN KindQuestion(facts, kind)
        all == UNION {QuestionRecords(class, facts, kind, question) : question \in qs}
        picks == {pick \in [qs -> all] :
                    \A question \in qs :
                        pick[question] \in QuestionRecords(class, facts, kind, question)}
    IN  { [i \in 1..Cardinality(qs) |-> pick[order[i]]] :
            order \in Orders(qs), pick \in picks }

RECURSIVE MCMFrom(_, _, _, _)
MCMFrom(class, facts, kinds, i) ==
    IF i > Len(kinds) THEN {<<>>}
    ELSE { head \o tail : head \in KindRecords(class, facts, kinds[i]),
                          tail \in MCMFrom(class, facts, kinds, i + 1) }

\* _MCM.build: what one call appends to q_and_a; it raises nothing.
MCM_build(category) ==
    { [records |-> records, error |-> NoError] :
        records \in MCMFrom(category.class, category.facts, Kinds(category.facts), 1) }

\* TrueOrFalse.build, first loop: the merged dictionary questions, and the
\* orders its keys can have (facts in order, a fact's questions in any order).
TFQuestions(facts) ==
    LET qs == UNION {DOMAIN q_to_a(facts[i]) : i \in DOMAIN facts}
    IN  [question \in qs |->
            UNION {q_to_a(facts[i])[question] :
                   i \in {j \in DOMAIN facts : question \in DOMAIN q_to_a(facts[j])}}]

RECURSIVE TFOrdersFrom(_, _, _)
TFOrdersFrom(facts, i, seen) ==
    IF i > Len(facts) THEN {seen}
    ELSE UNION { TFOrdersFrom(facts, i + 1, seen \o order) :
                 order \in Orders(DOMAIN q_to_a(facts[i]) \ Range(seen)) }

TFRecords_with_replacement(merged, order) ==
    LET bad == {i \in DOMAIN order : Cardinality(merged[order[i]]) # 1}
        stop == IF bad = {} THEN Len(order) + 1
                ELSE CHOOSE i \in bad : \A j \in bad : i <= j
    IN  { [records |-> [i \in 1..(stop - 1) |->
                          Record("True or False", order[i], samples[i],
                                 CHOOSE a \in merged[order[i]] : TRUE)],
           error |-> IF bad = {} THEN NoError ELSE "Question is invalid!"] :
            samples \in [1..(stop - 1) -> [1..2 -> {"True", "False"}]] }

\* TrueOrFalse.build, second loop, over the keys in the order given: the
\* Records appended before the first question whose answers are not one.
TFRecords(merged, order) ==
    LET bad == {i \in DOMAIN order : Cardinality(merged[order[i]]) # 1}
        stop == IF bad = {} THEN Len(order) + 1
                ELSE CHOOSE i \in bad : \A j \in bad : i <= j
    IN  { [records |-> [i \in 1..(stop - 1) |->
                          Record("True or False", order[i], samples[i],
                                 CHOOSE a \in merged[order[i]] : TRUE)],
           error |-> IF bad = {} THEN NoError ELSE "Question is invalid!"] :
            samples \in [1..(stop - 1) -> Orders({"True", "False"})] }

TrueOrFalse_build(category) ==
    UNION { TFRecords(TFQuestions(category.facts), order) :
            order \in TFOrdersFrom(category.facts, 1, <<>>) }

\* category.build(): [records appended to q_and_a, error raised].
build(category) ==
    IF category.class = "TrueOrFalse" THEN TrueOrFalse_build(category)
    ELSE MCM_build(category)

----------------------------------------------------------------------------
(***************************************************************************)
(* teach_me.Question                                                       *)
(***************************************************************************)

\* Question.__init__
Question(report, record) ==
    [report |-> report, category |-> record.kind, question |-> record.question,
     choices |-> record.choices, right |-> record.answer, answered |-> FALSE,
     q_and_a |-> record]

\* An argument of answer(): an int or a str.
IntArg(i) == <<"int", i>>
StrArg(text) == <<"str", text>>

\* choices[index]: Python counts a negative index from the end.
InRange(choices, index) == -Len(choices) <= index /\ index < Len(choices)
Item(choices, index) ==
    IF index >= 0 THEN choices[index + 1] ELSE choices[Len(choices) + index + 1]

Answered(err, rs, answered) == [error |-> err, reports |-> rs, answered |-> answered]

Mark_without_review(rs, question, text) ==
    LET out == IF text = question.right
               THEN right_answer(rs, question.report)
               ELSE wrong_answer(rs, question.report)
    IN  Answered(out.error, out.reports, out.error = NoError)

\* Lines 229-234 of Question.answer, the answer being a text by now.
Mark(rs, question, text) ==
    IF text = question.right
    THEN LET out == right_answer(rs, question.report)
         IN  Answered(out.error, out.reports, out.error = NoError)
    ELSE LET counted == wrong_answer(rs, question.report)
             kept == review(counted.reports, question.report, question.q_and_a, text)
         IN  IF counted.error # NoError
             THEN Answered(counted.error, rs, FALSE)
             ELSE Answered(kept.error, kept.reports, kept.error = NoError)

answer_again(rs, question, index_or_string) ==
    IF index_or_string[1] = "int" /\ ~InRange(question.choices, index_or_string[2])
    THEN Answered("IndexError", rs, question.answered)
    ELSE Mark(rs, question,
              IF index_or_string[1] = "int"
              THEN Item(question.choices, index_or_string[2])
              ELSE index_or_string[2])

answer_unconverted(rs, question, index_or_string) ==
    IF question.answered
    THEN Answered("Question has already been answered!", rs, TRUE)
    ELSE IF index_or_string[1] = "int" /\ ~InRange(question.choices, index_or_string[2])
    THEN Answered("IndexError", rs, FALSE)
    ELSE Mark(rs, question,
              IF index_or_string[1] = "int" THEN "an index" ELSE index_or_string[2])

\* Question.answer
answer(rs, question, index_or_string) ==
    IF question.answered
    THEN Answered("Question has already been answered!", rs, TRUE)
    ELSE IF index_or_string[1] = "int" /\ ~InRange(question.choices, index_or_string[2])
    THEN Answered("IndexError", rs, FALSE)
    ELSE Mark(rs, question,
              IF index_or_string[1] = "int"
              THEN Item(question.choices, index_or_string[2])
              ELSE index_or_string[2])

----------------------------------------------------------------------------
(***************************************************************************)
(* ReportSpec: a caller holding Report objects and using their API in any  *)
(* order, as a test of the class would.                                    *)
(***************************************************************************)

\* The level the caller gives a new report: that of its place under its parent.
LevelUnder(rs, parent) ==
    IF parent = NoParent THEN "UnitTest"
    ELSE IF rs[parent].parent = NoParent THEN "Chapter" ELSE "Section"

\* The Records and answers the caller passes to review().
ReviewRecords ==
    { [kind |-> "True or False", question |-> "q1",
       choices |-> <<"False", "True">>, answer |-> "True"] }
ReviewAnswers == {"False", "a1"}

\* How much has been recorded in all reports: it bounds the caller's calls
\* that record (a call on a finalized report records nothing).
RECURSIVE Work(_)
Work(rs) ==
    IF rs = <<>> THEN 0
    ELSE LET r == rs[Len(rs)]
         IN  r.right + r.wrong + Len(r.problems) + Work(SubSeq(rs, 1, Len(rs) - 1))

Call(op, target, err, v) == [op |-> op, target |-> target, error |-> err, value |-> v]

NoTest == [name |-> None, chapters |-> <<>>]

ReportInit ==
    /\ document = NoFile
    /\ bank = None
    /\ test = NoTest
    /\ built = <<>>
    /\ build_calls = <<>>
    /\ done = FALSE /\ last_exit = ""
    /\ pc = "unused"
    /\ chapter_i = 0 /\ section_i = 0 /\ question_i = 0
    /\ q_and_a = <<>>
    /\ unittest_report = 0 /\ chapter_report = 0 /\ section_report = 0
    /\ reports = <<>>
    /\ questions = <<>>
    /\ events = <<>>
    /\ gens = <<>>
    /\ last = Call("init", 0, NoError, Nothing)

\* Apply the outcome of a Report method to the state.
Apply(op, r, out) ==
    /\ reports' = out.reports
    /\ last' = Call(op, r, out.error, out.value)
    /\ UNCHANGED <<engine_vars, gens>>

CreateReport(parent) ==
    /\ Len(reports) < MaxReports
    /\ reports' = Append(reports, NewReport(LevelUnder(reports, parent), parent))
    /\ last' = Call("Report", Len(reports) + 1, NoError, Nothing)
    /\ UNCHANGED <<engine_vars, gens>>

CallRightAnswer(r) ==
    /\ reports[r].finalized \/ Work(reports) < MaxWork
    /\ Apply("right_answer", r, right_answer(reports, r))

CallWrongAnswer(r) ==
    /\ reports[r].finalized \/ Work(reports) < MaxWork
    /\ Apply("wrong_answer", r, wrong_answer(reports, r))

CallReview(r, record, given) ==
    /\ reports[r].finalized \/ Work(reports) < MaxWork
    /\ Apply("review", r, review(reports, r, record, given))

CallFinalize(r) == Apply("finalize", r, finalize(reports, r))

ReadRight(r) == Apply("right", r, right(reports, r))

ReadWrong(r) == Apply("wrong", r, wrong(reports, r))

ReadTotal(r) == Apply("total", r, total(reports, r))

CallGetProblems(r) ==
    /\ Len(gens) < MaxGens
    /\ gens' = Append(gens, get_problems(r))
    /\ last' = Call("get_problems", r, NoError, Returned(Len(gens) + 1))
    /\ UNCHANGED <<engine_vars, reports>>

NextProblem(g) ==
    LET step == get_problems_next(reports, gens[g])
    IN  /\ gens' = [gens EXCEPT ![g] = step.gen]
        /\ last' = Call("next_problem", g, step.error, step.value)
        /\ UNCHANGED <<engine_vars, reports>>

ReportNext ==
    \/ \E parent \in {NoParent} \cup DOMAIN reports : CreateReport(parent)
    \/ \E r \in DOMAIN reports : CallRightAnswer(r)
    \/ \E r \in DOMAIN reports : CallWrongAnswer(r)
    \/ \E r \in DOMAIN reports, record \in ReviewRecords, given \in ReviewAnswers :
          CallReview(r, record, given)
    \/ \E r \in DOMAIN reports : CallFinalize(r)
    \/ \E r \in DOMAIN reports : ReadRight(r)
    \/ \E r \in DOMAIN reports : ReadWrong(r)
    \/ \E r \in DOMAIN reports : ReadTotal(r)

ReportSpec == ReportInit /\ [][ReportNext]_vars

(***************************************************************************)
(* ProblemsSpec: a caller that also asks reports for their review entries. *)
(***************************************************************************)
ProblemsNext ==
    \/ \E parent \in {NoParent} \cup DOMAIN reports : CreateReport(parent)
    \/ \E r \in DOMAIN reports, record \in ReviewRecords, given \in ReviewAnswers :
          CallReview(r, record, given)
    \/ \E r \in DOMAIN reports : CallFinalize(r)
    \/ \E r \in DOMAIN reports : CallGetProblems(r)
    \/ \E g \in DOMAIN gens : NextProblem(g)

ProblemsSpec == ReportInit /\ [][ProblemsNext]_vars

----------------------------------------------------------------------------
(***************************************************************************)
(* Claims about the Report API.                                            *)
(***************************************************************************)

\* The call this step makes is `op` on report r.
Calls(op, r) == last'.op = op /\ last'.target = r

RECURSIVE IsAncestor(_, _, _)
IsAncestor(rs, a, r) ==
    /\ rs[r].parent # NoParent
    /\ \/ rs[r].parent = a
       \/ IsAncestor(rs, a, rs[r].parent)

HasOpenChild(rs, r) ==
    \E c \in DOMAIN rs : IsAncestor(rs, r, c) /\ ~rs[c].finalized

\* C3: finalize() on a Report fails while a Report of its subtree (one created
\* with it as parent, directly or through other Reports) is still Open.
\* The code has no such check: the call succeeds.
C3_FinalizeFailsWithOpenChild ==
    [][\A r \in DOMAIN reports :
          (Calls("finalize", r) /\ HasOpenChild(reports, r))
              => last'.error # NoError]_vars

\* C4: a Report goes from Open to Finalized and never back, and on a
\* Finalized Report right_answer(), wrong_answer() and review() each fail
\* with 'Report is finalized!' and change no count and no problem list.
C4_FinalizedIsLocked ==
    [][\A r \in DOMAIN reports :
          /\ reports[r].finalized => reports'[r].finalized
          /\ \A op \in {"right_answer", "wrong_answer", "review"} :
                (Calls(op, r) /\ reports[r].finalized)
                    => /\ last'.error = "Report is finalized!"
                       /\ reports' = reports]_vars

\* C4's case: a mutator has just failed on a Finalized Report that holds
\* answers and a problem.
C4_Witness ==
    /\ last.op \in {"right_answer", "wrong_answer", "review"}
    /\ last.error = "Report is finalized!"
    /\ reports[last.target].finalized
    /\ reports[last.target].right + reports[last.target].wrong > 0
    /\ reports[last.target].problems # <<>>

\* C5: finalize() on a Finalized Report fails, and reading right, wrong or
\* total on an Open Report fails; either way no Report changes (the parent
\* is not credited again) and nothing is returned.
C5_FailuresChangeNothing ==
    [][\A r \in DOMAIN reports :
          /\ (Calls("finalize", r) /\ reports[r].finalized)
                => /\ last'.error = "Report is finalized!"
                   /\ reports' = reports
          /\ \A op \in {"right", "wrong", "total"} :
                (Calls(op, r) /\ ~reports[r].finalized)
                    => /\ last'.error = "Report is not finalized!"
                       /\ last'.value = Nothing
                       /\ reports' = reports]_vars

\* C5's case: a second finalize() has just failed on a Report whose parent
\* was credited by the first.
C5_Witness ==
    /\ last.op = "finalize"
    /\ last.error = "Report is finalized!"
    /\ reports[last.target].parent # NoParent
    /\ reports[last.target].right + reports[last.target].wrong > 0
    /\ reports[reports[last.target].parent].right
         + reports[reports[last.target].parent].wrong > 0

\* C6: a successful finalize() happens on an Open Report only (so once per
\* Report, a Finalized one staying Finalized); it locks the Report, adds its
\* right and wrong counts to its parent's and appends its problems, in order,
\* to the end of its parent's; every other Report is unchanged, and with no
\* parent no other Report changes at all.
C6_FinalizeRollsUpOnce ==
    [][\A r \in DOMAIN reports :
          /\ reports[r].finalized => reports'[r].finalized
          /\ (Calls("finalize", r) /\ last'.error = NoError)
                => LET parent == reports[r].parent
                   IN  /\ ~reports[r].finalized
                       /\ reports'[r] = [reports[r] EXCEPT !.finalized = TRUE]
                       /\ parent # NoParent =>
                             reports'[parent] =
                                [reports[parent] EXCEPT
                                    !.right = @ + reports[r].right,
                                    !.wrong = @ + reports[r].wrong,
                                    !.problems = @ \o reports[r].problems]
                       /\ \A o \in DOMAIN reports \ {r, parent} :
                             reports'[o] = reports[o]]_vars

\* C6's case: a Report with a problem has just been finalized into a parent
\* that had a different problem of its own.
C6_Witness ==
    /\ last.op = "finalize"
    /\ last.error = NoError
    /\ reports[last.target].parent # NoParent
    /\ Len(reports[last.target].problems) = 1
    /\ Len(reports[reports[last.target].parent].problems) = 2
    /\ reports[reports[last.target].parent].problems[1]
         # reports[reports[last.target].parent].problems[2]

\* C7: get_problems() on an Open Report fails with an invalid-state error.
\* The code returns a generator object instead: the check of the flag runs
\* at the first next(), against the flag's value at that time.
C7_GetProblemsFailsOnOpen ==
    [][\A r \in DOMAIN reports :
          (Calls("get_problems", r) /\ ~reports[r].finalized)
              => last'.error # NoError]_vars

----------------------------------------------------------------------------
(***************************************************************************)
(* The documents a session is run on.                                      *)
(***************************************************************************)
MaxChapters == 2
MaxSections == 2

ChapterNames == <<"c1", "c2", "c3", "c4">>
SectionNames ==
    << <<"c1s1", "c1s2", "c1s3", "c1s4">>, <<"c2s1", "c2s2", "c2s3", "c2s4">>,
       <<"c3s1", "c3s2", "c3s3", "c3s4">>, <<"c4s1", "c4s2", "c4s3", "c4s4">> >>

\* A true/false category of one fact; a multiple-choice category of one
\* question, its second fact giving the wrong answer; a matching category
\* whose only fact has no question, so it builds no Record; and a true/false
\* category whose two facts answer one question both ways.
TrueFalseCategory ==
    CategoryNode("true_or_false", << FactNode(None, <<"q1">>, <<"True">>) >>)
MultipleChoiceCategory ==
    CategoryNode("multiple_choice",
                 << FactNode("k1", <<"q2">>, <<"a1">>),
                    FactNode("k1", <<>>, <<"a2">>) >>)
MatchingCategory ==
    CategoryNode("matching", << FactNode(None, <<>>, <<"a1">>) >>)
AmbiguousCategory ==
    CategoryNode("true_or_false",
                 << FactNode(None, <<"q1">>, <<"True">>),
                    FactNode(None, <<"q1">>, <<"False">>) >>)

\* The number of sections of each chapter: they differ from chapter to chapter.
Shape(chapters, k) == [c \in 1..chapters |-> ((c + k) % MaxSections) + 1]
Shapes == {Shape(chapters, k) : chapters \in 1..MaxChapters, k \in 0..(MaxSections - 1)}

RECURSIVE SectionsBefore(_, _)
SectionsBefore(shape, c) ==
    IF c = 1 THEN 0 ELSE shape[c - 1] + SectionsBefore(shape, c - 1)
Sections(shape) == SectionsBefore(shape, Len(shape) + 1)

\* The section at place `at` of the document (sections counted through the
\* chapters): the true/false category at place tf, the multiple-choice one at
\* place mc, the ambiguous one at place bad, the matching one where there is
\* nothing else.
Contents(tf, mc, bad, at) ==
    LET asked == (IF at = tf THEN <<TrueFalseCategory>> ELSE <<>>)
                    \o (IF at = mc THEN <<MultipleChoiceCategory>> ELSE <<>>)
    IN  (IF asked = <<>> THEN <<MatchingCategory>> ELSE asked)
            \o (IF at = bad THEN <<AmbiguousCategory>> ELSE <<>>)

Document(shape, tf, mc, bad) ==
    TestBankNode("bank",
        [c \in 1..Len(shape) |->
            ChapterNode(ChapterNames[c],
                [s \in 1..shape[c] |->
                    SectionNode(SectionNames[c][s],
                                Contents(tf, mc, bad, SectionsBefore(shape, c) + s))])])

\* The questions are in the first or the last section, both in one section
\* or in two sections that follow each other; no section or the last one
\* has the ambiguous category.
Documents ==
    UNION { { Document(shape, tf, ((tf + gap - 1) % Sections(shape)) + 1, bad) :
                tf \in {1, Sections(shape)}, gap \in {0, 1},
                bad \in {0, Sections(shape)} } :
            shape \in Shapes }

----------------------------------------------------------------------------
(***************************************************************************)
(* teach_me.FAQ.__iter__: the generator, one action per place it can be    *)
(* resumed at; a place is named by the line of its yield.                  *)
(***************************************************************************)

Event(type, kind, name, id) == [type |-> type, kind |-> kind, name |-> name, id |-> id]
\* _Status.__init__, through Enter and Exit
Enter(kind, division) == Event("Enter", kind, division.name, 0)
Exit_as_Enter(kind, division) == Event("Enter", kind, division.name, 0)
Exit(kind, division) == Event("Exit", kind, division.name, 0)
QuestionEvent(q) == Event("Question", None, None, q)
ReportEvent(r) == Event("Report", None, None, r)

\* Every category of the unit test, by <<chapter, section, category>>.
CategoryPlaces(unittest) ==
    UNION { UNION { { <<c, s, k>> :
                        k \in DOMAIN unittest.chapters[c].sections[s].categories } :
                    s \in DOMAIN unittest.chapters[c].sections } :
            c \in DOMAIN unittest.chapters }

\* The session starts: FAQ(testbank) succeeded and iter() made the generator.
Init ==
    /\ document = NoFile
    /\ bank \in Documents
    /\ FAQ(bank).error = NoError
    /\ test = FAQ(bank).value
    /\ built = [place \in CategoryPlaces(test) |-> <<>>]
    /\ build_calls = <<>>
    /\ done = FALSE /\ last_exit = ""
    /\ pc = "start"
    /\ chapter_i = 0 /\ section_i = 0 /\ question_i = 0
    /\ q_and_a = <<>>
    /\ unittest_report = 0 /\ chapter_report = 0 /\ section_report = 0
    /\ reports = <<>>
    /\ questions = <<>>
    /\ events = <<>>
    /\ gens = <<>>
    /\ last = Call("iter", 0, NoError, Nothing)

\* yield event: the generator is suspended at `line`.
Yield(event, line) ==
    /\ events' = Append(events, event)
    /\ pc' = line
    /\ last' = Call("next", 0, NoError, Returned(event))

\* The generator ends: by return (StopIteration) or by an exception.
Stop(err, state) ==
    /\ pc' = state
    /\ last' = Call("next", 0, err, Nothing)
    /\ UNCHANGED events

\* The sessions of this FAQ so far: the generators that have been started.
Sessions ==
    Cardinality({i \in DOMAIN events :
                    events[i].type = "Enter" /\ events[i].kind = "UnitTest"})

\* One call of category.build(): the session it was made in, the category,
\* the Records it appended and how it ended.
BuildCall(session, place, result) ==
    [session |-> session, place |-> place,
     records |-> result.records, error |-> result.error]

BuildFrom_first_only(categories, c, s, k, lists, pool, calls) ==
    IF k > Len(categories)
    THEN {[built |-> lists, q_and_a |-> pool, calls |-> calls, error |-> NoError]}
    ELSE { LET after == [lists EXCEPT ![<<c, s, k>>] = @ \o result.records]
           IN  [built |-> after,
                q_and_a |-> IF result.error = NoError THEN pool \o after[<<c, s, k>>] ELSE pool,
                calls |-> Append(calls, BuildCall(Sessions, <<c, s, k>>, result)),
                error |-> result.error] :
           result \in build(categories[k]) }

\* Lines 42-44: build() on each category in order, q_and_a extended by the
\* category's whole list; the first exception ends the loop.
RECURSIVE BuildFrom(_, _, _, _, _, _, _)
BuildFrom(categories, c, s, k, lists, pool, calls) ==
    IF k > Len(categories)
    THEN {[built |-> lists, q_and_a |-> pool, calls |-> calls, error |-> NoError]}
    ELSE UNION {
           LET after == [lists EXCEPT ![<<c, s, k>>] = @ \o result.records]
               called == Append(calls, BuildCall(Sessions, <<c, s, k>>, result))
           IN  IF result.error # NoError
               THEN {[built |-> after, q_and_a |-> pool, calls |-> called,
                      error |-> result.error]}
               ELSE BuildFrom(categories, c, s, k + 1, after,
                              pool \o after[<<c, s, k>>], called) :
           result \in build(categories[k]) }

\* random.shuffle(q_and_a)
Shuffles(pool) ==
    { [i \in 1..Len(pool) |-> pool[order[i]]] : order \in Orders(1..Len(pool)) }

TheChapter == test.chapters[chapter_i]
TheSection == test.chapters[chapter_i].sections[section_i]

\* Line 33.
Start ==
    /\ pc = "start"
    /\ Yield(Enter("UnitTest", test), "l33")
    /\ UNCHANGED <<done, last_exit, document, bank, test, built, build_calls, chapter_i, section_i, q_and_a, question_i,
                   unittest_report, chapter_report, section_report,
                   reports, questions, gens>>

\* Lines 34-36, resumed after Enter(unittest).
Resume33 ==
    /\ pc = "l33"
    /\ reports' = Append(reports, NewReport("UnitTest", NoParent))
    /\ unittest_report' = Len(reports) + 1
    /\ chapter_i' = 1
    /\ IF test.chapters # <<>>
       THEN Yield(Enter("Chapter", test.chapters[1]), "l36")
       ELSE Yield(Exit("UnitTest", test), "l54")
    /\ UNCHANGED <<done, last_exit, document, bank, test, built, build_calls, section_i, q_and_a, question_i,
                   chapter_report, section_report, questions, gens>>

\* Lines 37-39, resumed after Enter(chapter).
Resume36 ==
    /\ pc = "l36"
    /\ reports' = Append(reports, NewReport("Chapter", unittest_report))
    /\ chapter_report' = Len(reports) + 1
    /\ section_i' = 1
    /\ IF TheChapter.sections # <<>>
       THEN Yield(Enter("Section", TheChapter.sections[1]), "l39")
       ELSE Yield(Exit("Chapter", TheChapter), "l51")
    /\ UNCHANGED <<done, last_exit, document, bank, test, built, build_calls, chapter_i, q_and_a, question_i,
                   unittest_report, section_report, questions, gens>>

\* Lines 46-48 at position i of the loop over q_and_a: the next Question
\* bound to the section's report, or Exit(section) after the last.
QuestionOrExit(pool, i, report) ==
    /\ question_i' = i
    /\ IF i <= Len(pool)
       THEN /\ questions' = Append(questions, Question(report, pool[i]))
            /\ Yield(QuestionEvent(Len(questions) + 1), "l47")
       ELSE /\ questions' = questions
            /\ Yield(Exit("Section", TheSection), "l48")

\* Lines 40-48, resumed after Enter(section).
Resume39 ==
    /\ pc = "l39"
    /\ reports' = Append(reports, NewReport("Section", chapter_report))
    /\ section_report' = Len(reports) + 1
    /\ \E result \in BuildFrom(TheSection.categories, chapter_i, section_i, 1,
                                built, <<>>, build_calls) :
          /\ built' = result.built
          /\ build_calls' = result.calls
          /\ IF result.error # NoError
             THEN /\ Stop(result.error, "raised")
                  /\ UNCHANGED <<q_and_a, question_i, questions>>
             ELSE \E shuffled \in Shuffles(result.q_and_a) :
                     /\ q_and_a' = shuffled
                     /\ QuestionOrExit(shuffled, 1, Len(reports) + 1)
    /\ UNCHANGED <<done, last_exit, document, bank, test, chapter_i, section_i,
                   unittest_report, chapter_report, gens>>

\* Lines 46-48, resumed after a Question.
Resume47 ==
    /\ pc = "l47"
    /\ QuestionOrExit(q_and_a, question_i + 1, section_report)
    /\ UNCHANGED <<done, last_exit, document, bank, test, built, build_calls, chapter_i, section_i, q_and_a,
                   unittest_report, chapter_report, section_report, reports, gens>>

FinalizeAndYield_unfinalized(report, line) ==
    /\ reports' = reports
    /\ Yield(ReportEvent(report), line)

\* report.finalize(); yield report: lines 49-50, 52-53 and 55-56.
FinalizeAndYield(report, line) ==
    LET out == finalize(reports, report)
    IN  /\ reports' = out.reports
        /\ IF out.error # NoError
           THEN Stop(out.error, "raised")
           ELSE Yield(ReportEvent(report), line)

Resume48_finalizes_chapter ==
    /\ pc = "l48"
    /\ FinalizeAndYield(chapter_report, "l50")
    /\ UNCHANGED <<done, last_exit, document, bank, test, built, build_calls, chapter_i, section_i, q_and_a, question_i,
                   unittest_report, chapter_report, section_report, questions, gens>>

\* Lines 49-50, resumed after Exit(section).
Resume48 ==
    /\ pc = "l48"
    /\ FinalizeAndYield(section_report, "l50")
    /\ UNCHANGED <<done, last_exit, document, bank, test, built, build_calls, chapter_i, section_i, q_and_a, question_i,
                   unittest_report, chapter_report, section_report, questions, gens>>

\* Lines 38-39 and 51, resumed after the section's report.
Resume50 ==
    /\ pc = "l50"
    /\ section_i' = section_i + 1
    /\ IF section_i < Len(TheChapter.sections)
       THEN Yield(Enter("Section", TheChapter.sections[section_i + 1]), "l39")
       ELSE Yield(Exit("Chapter", TheChapter), "l51")
    /\ UNCHANGED <<done, last_exit, document, bank, test, built, build_calls, chapter_i, q_and_a, question_i,
                   unittest_report, chapter_report, section_report,
                   reports, questions, gens>>

\* Lines 52-53, resumed after Exit(chapter).
Resume51 ==
    /\ pc = "l51"
    /\ FinalizeAndYield(chapter_report, "l53")
    /\ UNCHANGED <<done, last_exit, document, bank, test, built, build_calls, chapter_i, section_i, q_and_a, question_i,
                   unittest_report, chapter_report, section_report, questions, gens>>

\* Lines 35-36 and 54, resumed after the chapter's report.
Resume53 ==
    /\ pc = "l53"
    /\ chapter_i' = chapter_i + 1
    /\ IF chapter_i < Len(test.chapters)
       THEN Yield(Enter("Chapter", test.chapters[chapter_i + 1]), "l36")
       ELSE Yield(Exit("UnitTest", test), "l54")
    /\ UNCHANGED <<done, last_exit, document, bank, test, built, build_calls, section_i, q_and_a, question_i,
                   unittest_report, chapter_report, section_report,
                   reports, questions, gens>>

\* Lines 55-56, resumed after Exit(unittest).
Resume54 ==
    /\ pc = "l54"
    /\ FinalizeAndYield(unittest_report, "l56")
    /\ UNCHANGED <<done, last_exit, document, bank, test, built, build_calls, chapter_i, section_i, q_and_a, question_i,
                   unittest_report, chapter_report, section_report, questions, gens>>

\* Resumed after the last report: the function returns.
Resume56 ==
    /\ pc = "l56"
    /\ Stop("StopIteration", "returned")
    /\ UNCHANGED <<done, last_exit, document, bank, test, built, build_calls, chapter_i, section_i, q_and_a, question_i,
                   unittest_report, chapter_report, section_report,
                   reports, questions, gens>>

\* next() on a generator that has returned or raised.
ResumeClosed ==
    /\ pc \in {"returned", "raised"}
    /\ Stop("StopIteration", pc)
    /\ UNCHANGED <<done, last_exit, document, bank, test, built, build_calls, chapter_i, section_i, q_and_a, question_i,
                   unittest_report, chapter_report, section_report,
                   reports, questions, gens>>

(***************************************************************************)
(* The driver: it pulls events and may call answer() on any Question       *)
(* event it holds, with an index or a text.                                *)
(***************************************************************************)
Indexes == {-3, -1, 0, 2}
Texts == {"True", "a1"}

CallAnswer(q, index_or_string) ==
    LET out == answer(reports, questions[q], index_or_string)
    IN  /\ reports' = out.reports
        /\ questions' = [questions EXCEPT ![q].answered = out.answered]
        /\ last' = Call("answer", q, out.error, Nothing)
        /\ UNCHANGED <<done, last_exit, document, bank, test, built, build_calls, pc, chapter_i, section_i, q_and_a, question_i,
                       unittest_report, chapter_report, section_report, events, gens>>

Next ==
    \/ Start
    \/ Resume33
    \/ Resume36
    \/ Resume39
    \/ Resume47
    \/ Resume48
    \/ Resume50
    \/ Resume51
    \/ Resume53
    \/ Resume54
    \/ Resume56
    \/ ResumeClosed
    \/ \E q \in DOMAIN questions, index \in Indexes : CallAnswer(q, IntArg(index))
    \/ \E q \in DOMAIN questions, text \in Texts : CallAnswer(q, StrArg(text))

Spec == Init /\ [][Next]_vars

----------------------------------------------------------------------------
(***************************************************************************)
(* Claims about the session.                                               *)
(***************************************************************************)

RECURSIVE Flatten(_)
Flatten(seqs) ==
    IF seqs = <<>> THEN <<>> ELSE Head(seqs) \o Flatten(Tail(seqs))

\* What an event shows of the walk: its type, the division's kind and name,
\* or for a Report its level.
Outline(event) ==
    IF event.type = "Report"
    THEN <<"Report", reports[event.id].level, None>>
    ELSE <<event.type, event.kind, event.name>>

\* The walk the document prescribes, Question events left out.
SectionWalk(section) ==
    << <<"Enter", "Section", section.name>>, <<"Exit", "Section", section.name>>,
       <<"Report", "Section", None>> >>
ChapterWalk(chapter) ==
    << <<"Enter", "Chapter", chapter.name>> >>
        \o Flatten([s \in DOMAIN chapter.sections |-> SectionWalk(chapter.sections[s])])
        \o << <<"Exit", "Chapter", chapter.name>>, <<"Report", "Chapter", None>> >>
UnitTestWalk(unittest) ==
    << <<"Enter", "UnitTest", unittest.name>> >>
        \o Flatten([c \in DOMAIN unittest.chapters |-> ChapterWalk(unittest.chapters[c])])
        \o << <<"Exit", "UnitTest", unittest.name>>, <<"Report", "UnitTest", None>> >>

Walked ==
    LET others == SelectSeq(events, LAMBDA event : event.type # "Question")
    IN  [i \in DOMAIN others |-> Outline(others[i])]

IsPrefix(short, long) ==
    /\ Len(short) <= Len(long)
    /\ \A i \in DOMAIN short : short[i] = long[i]

\* A hierarchy with no validation error left for the session to find: every
\* question of every true/false category has one answer.
Valid(unittest) ==
    \A place \in CategoryPlaces(unittest) :
        LET category == unittest.chapters[place[1]].sections[place[2]].categories[place[3]]
        IN  category.class = "TrueOrFalse" =>
                \A text \in DOMAIN TFQuestions(category.facts) :
                    Cardinality(TFQuestions(category.facts)[text]) = 1

\* The first Report event after place i of events, or 0.
NextReport(i) ==
    LET later == {j \in DOMAIN events : j > i /\ events[j].type = "Report"}
    IN  IF later = {} THEN 0 ELSE CHOOSE j \in later : \A k \in later : j <= k

\* C1: the events of one session are, in this order and with nothing else:
\* Enter(UnitTest); per chapter in document order Enter(Chapter); per section
\* in document order Enter(Section), the section's Questions, Exit(Section),
\* the Section Report; then Exit(Chapter), the Chapter Report; and last
\* Exit(UnitTest), the UnitTest Report.  At every moment the events are a
\* start of that sequence, a returned generator has emitted all of it, each
\* Question lies between its section's Enter and Exit and is bound to the
\* Report emitted after that Exit, no Report is emitted twice, and on a
\* valid hierarchy the generator never raises.
C1_EventSequence ==
    /\ IsPrefix(Walked, UnitTestWalk(test))
    /\ pc = "returned" => Walked = UnitTestWalk(test)
    /\ Valid(test) => pc # "raised"
    /\ \A i \in DOMAIN events :
          events[i].type = "Question" =>
              /\ i > 1
              /\ \/ events[i - 1].type = "Question"
                 \/ events[i - 1].type = "Enter" /\ events[i - 1].kind = "Section"
              /\ reports[questions[events[i].id].report].level = "Section"
              /\ NextReport(i) # 0 =>
                    events[NextReport(i)].id = questions[events[i].id].report
    /\ \A i, j \in DOMAIN events :
          (events[i].type = "Report" /\ events[j].type = "Report"
              /\ events[i].id = events[j].id) => i = j

\* C1's case: a session of two chapters, one of them of two sections, with
\* Questions, has run to its end.
C1_Witness ==
    /\ pc = "returned"
    /\ Len(test.chapters) = 2
    /\ \E c \in DOMAIN test.chapters : Len(test.chapters[c].sections) = 2
    /\ Len(questions) = 2

\* C2: when every Question event of the session has been answered, the
\* UnitTest Report's right + wrong, once that Report is emitted, is the
\* number of Question events of the session.
C2_TerminalTotal ==
    (pc \in {"l56", "returned"} /\ \A q \in DOMAIN questions : questions[q].answered)
        => total(reports, unittest_report) = Outcome(NoError, reports, Returned(Len(questions)))

\* C2's case: the terminal Report of a session whose two Questions, of two
\* sections, were answered, one right and one wrong.
C2_Witness ==
    /\ pc = "l56"
    /\ Len(questions) = 2
    /\ \A q \in DOMAIN questions : questions[q].answered
    /\ questions[1].report # questions[2].report
    /\ reports[unittest_report].right = 1
    /\ reports[unittest_report].wrong = 1

\* C8: every Report event is Finalized when it is emitted, and a Report is
\* finalized only after the Exit event of its division: it is still Open
\* while the generator is suspended at that Exit, and a Finalized Report is
\* the event emitted right after an Exit of its level.
C8_FinalizedAfterExit ==
    /\ \A i \in DOMAIN events :
          events[i].type = "Report" => reports[events[i].id].finalized
    /\ pc = "l48" => /\ ~reports[section_report].finalized
                     /\ events[Len(events)].type = "Exit"
                     /\ events[Len(events)].kind = "Section"
    /\ pc = "l51" => ~reports[chapter_report].finalized
    /\ pc = "l54" => ~reports[unittest_report].finalized
    /\ \A r \in DOMAIN reports :
          reports[r].finalized =>
              \E i \in DOMAIN events :
                  /\ events[i] = ReportEvent(r)
                  /\ i > 1
                  /\ events[i - 1].type = "Exit"
                  /\ events[i - 1].kind = reports[r].level

\* C8's case: the driver holds Exit(Section) and the section's Report, which
\* has an answer, is Open.
C8_Witness ==
    /\ pc = "l48"
    /\ reports[section_report].right + reports[section_report].wrong > 0
    /\ ~reports[section_report].finalized

FinalReports ==
    {i \in DOMAIN events : events[i].type = "Report" /\ final(reports, events[i].id)}

C10_NoSecondAnswer ==
    [][\A q \in DOMAIN questions :
          (Calls("answer", q) /\ questions[q].answered)
              => /\ last'.error = "Question has already been answered!"
                 /\ reports' = reports
                 /\ questions' = questions]_vars

\* C10's case: a second answer() has just failed on a Question whose Report
\* is still Open, so that the call would have counted.
C10_Witness ==
    /\ last.op = "answer"
    /\ last.error = "Question has already been answered!"
    /\ questions[last.target].answered
    /\ ~reports[questions[last.target].report].finalized

\* C11: for every Question, answer() with the correct-answer text and
\* answer() with an index of that text in choices end the same way and leave
\* the same Reports; on a Question not yet answered whose Report is Open,
\* that is: no error, the Report's right count one higher, the wrong count
\* and the problem list (and every other Report) as they were.
C11_TextAndIndexAgree ==
    \A q \in DOMAIN questions :
        LET question == questions[q]
            byText == answer(reports, question, StrArg(question.right))
            places == {i \in -Len(question.choices)..(Len(question.choices) - 1) :
                          Item(question.choices, i) = question.right}
        IN  /\ places # {}
            /\ \A i \in places : answer(reports, question, IntArg(i)) = byText
            /\ (~question.answered /\ ~reports[question.report].finalized)
                  => byText = Answered(NoError,
                                       [reports EXCEPT ![question.report].right = @ + 1],
                                       TRUE)

\* C11's case: one Question of a section has just been answered right, its
\* Report showing one right answer and no problem, and another Question of
\* two choices is waiting on the same Open Report.
C11_Witness ==
    /\ last.op = "answer"
    /\ last.error = NoError
    /\ questions[last.target].answered
    /\ reports[questions[last.target].report].right = 1
    /\ reports[questions[last.target].report].wrong = 0
    /\ reports[questions[last.target].report].problems = <<>>
    /\ \E q \in DOMAIN questions :
          /\ ~questions[q].answered
          /\ questions[q].report = questions[last.target].report
          /\ ~reports[questions[q].report].finalized
          /\ Len(questions[q].choices) = 2

----------------------------------------------------------------------------
(***************************************************************************)
(* testbank.BankParser: the SAX handler, over a document given as its tree *)
(* of elements.  startElement runs on an element before its children, so   *)
(* the first exception in document order ends the parse.                   *)
(***************************************************************************)

\* An XML element: its name, its attributes, its character data, its children.
Element(name, attributes, text, children) ==
    [name |-> name, attributes |-> attributes, text |-> text, children |-> children]
NoAttributes == <<>>
Attribute(key, value) == [a \in {key} |-> value]

\* attributes.getValue(key)
getValue(attributes, key) ==
    IF key \in DOMAIN attributes THEN Built(attributes[key]) ELSE Raised("KeyError")

\* The top of self.context, as far as startElement looks at it.
NoContext == [tag |-> None, attr |-> None]

\* The class the top of the context must have, and the failure otherwise.
ContextOf ==
    [chapter |-> "testbank", section |-> "chapter", category |-> "section",
     fact |-> "category", question |-> "fact", answer |-> "fact"]
ContextError ==
    [chapter |-> "Chapter should be in context of testbank!",
     section |-> "Section should be in context of chapter!",
     category |-> "Category should be in context of section!",
     fact |-> "Fact should be in context of category!",
     question |-> "Question should be in context of fact!",
     answer |-> "Answer should be in context of fact!"]

\* testbank.Category.__init__
testbank_Category(attr) ==
    IF attr \notin {"matching", "multiple_choice", "true_or_false"}
    THEN Raised("Type of category not recognized!")
    ELSE Built(attr)

startElement_any_context(name, attributes, top) ==
    IF name = "testbank"
    THEN IF top.tag # None THEN Raised("Context should be empty!")
         ELSE getValue(attributes, "name")
    ELSE IF name \notin DOMAIN ContextOf THEN Raised("ValueError")
    ELSE IF top.tag = None THEN Raised("IndexError")
    ELSE IF name \in {"chapter", "section"} THEN getValue(attributes, "name")
    ELSE IF name = "category"
    THEN IF getValue(attributes, "type").error # NoError
         THEN getValue(attributes, "type")
         ELSE testbank_Category(getValue(attributes, "type").value)
    ELSE IF name = "fact"
    THEN IF top.attr = "multiple_choice" THEN getValue(attributes, "type")
         ELSE Built(None)
    ELSE Built(None)

\* BankParser.startElement: the attr of the node pushed, or the exception.
startElement(name, attributes, top) ==
    IF name = "testbank"
    THEN IF top.tag # None THEN Raised("Context should be empty!")
         ELSE getValue(attributes, "name")
    ELSE IF name \notin DOMAIN ContextOf THEN Raised("ValueError")
    ELSE IF top.tag = None THEN Raised("IndexError")
    ELSE IF top.tag # ContextOf[name] THEN Raised(ContextError[name])
    ELSE IF name \in {"chapter", "section"} THEN getValue(attributes, "name")
    ELSE IF name = "category"
    THEN IF getValue(attributes, "type").error # NoError
         THEN getValue(attributes, "type")
         ELSE testbank_Category(getValue(attributes, "type").value)
    ELSE IF name = "fact"
    THEN IF top.attr = "multiple_choice" THEN getValue(attributes, "type")
         ELSE Built(None)
    ELSE Built(None)

\* startElement, the events of the children, endElement: the node that is
\* added to its parent (or becomes root_node), or the first exception.
RECURSIVE ParseElement(_, _)
ParseElement(element, top) ==
    LET started == startElement(element.name, element.attributes, top)
        results == [i \in DOMAIN element.children |->
                      ParseElement(element.children[i],
                                   [tag |-> element.name, attr |-> started.value])]
    IN  IF started.error # NoError THEN started
        ELSE IF FirstRaised(results) # NoError THEN Raised(FirstRaised(results))
        ELSE Built(Node(element.name, started.value, element.text, Values(results)))

\* BankParser.parse
parse(file) == ParseElement(file, NoContext)

\* The class of an exception of the model: the failures with a message are
\* RuntimeError, the others are named by their class.
ErrorKind(err) ==
    IF err = NoError THEN None
    ELSE IF err \in {"ValueError", "TypeError", "KeyError", "IndexError", "StopIteration"}
    THEN err ELSE "RuntimeError"

\* QuizMe.start, lines 127-149: the dialog a failure of parse or FAQ gets.
start_except(err) ==
    IF err = NoError THEN None
    ELSE IF ErrorKind(err) = "RuntimeError" THEN "Validation Error"
    ELSE "Error"

----------------------------------------------------------------------------
(***************************************************************************)
(* BankSpec: a test bank is parsed (or a tree is made with the node        *)
(* classes), FAQ makes the structural model of it, and build() is called   *)
(* on its categories.                                                      *)
(***************************************************************************)

\* The wrong answers the large multiple-choice group has.
MaxPool == 4

AnswerNames == <<"a1", "a2", "a3", "a4", "a5", "a6", "a7">>

XQuestion(text) == Element("question", NoAttributes, text, <<>>)
XAnswer(text) == Element("answer", NoAttributes, text, <<>>)
XFact(attributes, qs, as) ==
    Element("fact", attributes, "",
            [i \in 1..Len(qs) |-> XQuestion(qs[i])] \o [i \in 1..Len(as) |-> XAnswer(as[i])])
XCategory(type, facts) == Element("category", Attribute("type", type), "", facts)
XSection(name, categories) == Element("section", Attribute("name", name), "", categories)
XChapter(name, sections) == Element("chapter", Attribute("name", name), "", sections)
XTestBank(name, chapters) == Element("testbank", Attribute("name", name), "", chapters)

Typed(kind) == Attribute("type", kind)

\* Categories as they are written in a file.  Multiple choice: two kinds of
\* facts; one question against a pool larger than CHOICES; a question with
\* two correct answers; a question asked by two facts of one kind; a
\* question asked in two kinds.  Matching: facts that carry a type in the file.
\* True or false: two questions; a question answered both ways after
\* another question; a question answered both ways by one fact.
XCategories ==
    { XCategory("multiple_choice",
                << XFact(Typed("k1"), <<"q1">>, <<"a1">>),
                   XFact(Typed("k2"), <<"q2">>, <<"a2">>),
                   XFact(Typed("k1"), <<"q3">>, <<"a3">>) >>),
      XCategory("multiple_choice",
                << XFact(Typed("k1"), <<"q1">>, <<"a1">>),
                   XFact(Typed("k1"), <<>>, SubSeq(AnswerNames, 2, MaxPool + 1)) >>),
      XCategory("multiple_choice",
                << XFact(Typed("k1"), <<"q1">>, <<"a1", "a2">>),
                   XFact(Typed("k1"), <<"q2">>, <<"a3">>) >>),
      XCategory("multiple_choice",
                << XFact(Typed("k1"), <<"q1">>, <<"a1">>),
                   XFact(Typed("k1"), <<"q1">>, <<"a2">>),
                   XFact(Typed("k1"), <<"q2">>, <<"a3">>) >>),
      XCategory("multiple_choice",
                << XFact(Typed("k1"), <<"q1">>, <<"a1">>),
                   XFact(Typed("k1"), <<"q2">>, <<"a2">>),
                   XFact(Typed("k2"), <<"q1">>, <<"a2">>) >>),
      XCategory("matching",
                << XFact(Typed("k1"), <<"q1">>, <<"a1">>),
                   XFact(Typed("k2"), <<"q2">>, <<"a2">>) >>),
      XCategory("matching",
                << XFact(NoAttributes, <<"q1", "q2">>, <<"a1">>),
                   XFact(NoAttributes, <<>>, <<"a2">>) >>),
      XCategory("true_or_false",
                << XFact(NoAttributes, <<"q1">>, <<"True">>),
                   XFact(NoAttributes, <<"q2">>, <<"False">>) >>),
      XCategory("true_or_false",
                << XFact(NoAttributes, <<"q1">>, <<"True">>),
                   XFact(NoAttributes, <<"q2">>, <<"True">>),
                   XFact(NoAttributes, <<"q2">>, <<"False">>) >>),
      XCategory("true_or_false",
                << XFact(NoAttributes, <<"q1">>, <<"True", "False">>) >>) }

\* Categories that break a rule: no fact, a fact without answers, a
\* true/false answer that is neither text, a type that is not known, a
\* multiple-choice fact without its type.
XBadCategories ==
    { XCategory("matching", <<>>),
      XCategory("multiple_choice", << XFact(Typed("k1"), <<"q1">>, <<>>) >>),
      XCategory("true_or_false", << XFact(NoAttributes, <<"q1">>, <<"Maybe">>) >>),
      XCategory("true_or_false", << XFact(NoAttributes, <<"q1">>, <<"true">>) >>),
      XCategory("essay", << XFact(NoAttributes, <<"q1">>, <<"a1">>) >>),
      XCategory("multiple_choice", << XFact(NoAttributes, <<"q1">>, <<"a1">>) >>) }

OneSection(categories) ==
    XTestBank("bank", << XChapter("c1", << XSection("c1s1", categories) >>) >>)

\* Files with an element under a parent that is not the required one: each
\* kind of element one level too high, an element inside one of its own
\* kind, a testbank below the root, something inside a question, and a
\* misplaced element after good ones.
Misplaced ==
    LET fact == XFact(NoAttributes, <<"q1">>, <<"a1">>)
        category == XCategory("matching", <<fact>>)
        section == XSection("c1s1", <<category>>)
        chapter == XChapter("c1", <<section>>)
        around(inner) == OneSection(<< XCategory("matching", <<fact, inner>>) >>)
    IN  { XTestBank("bank", <<chapter, section>>),
          XTestBank("bank", << XChapter("c1", <<section, category>>) >>),
          XTestBank("bank", << XChapter("c1", << XSection("c1s1", <<category, fact>>) >>) >>),
          OneSection(<< XCategory("matching", << fact, XQuestion("q2") >>) >>),
          OneSection(<< XCategory("matching", << fact, XAnswer("a2") >>) >>),
          XTestBank("bank", << chapter, XChapter("c2", <<chapter>>) >>),
          XTestBank("bank", << chapter, XTestBank("bank", <<chapter>>) >>),
          XTestBank("bank", << XChapter("c1", << XSection("c1s1", <<section>>) >>) >>),
          OneSection(<<category, XCategory("matching", <<category>>)>>),
          around(Element("fact", NoAttributes, "", <<fact>>)),
          around(Element("fact", NoAttributes, "",
                         << Element("question", NoAttributes, "q2", << XAnswer("a2") >>) >>)),
          around(Element("fact", NoAttributes, "",
                         << XQuestion("q2"), Element("hint", NoAttributes, "", <<>>) >>)),
          section, category, fact, XQuestion("q1") }

\* The files: one category, a good category followed by a bad one, or two
\* bad ones; a bad category in a chapter before or after an empty chapter; a
\* level left empty; an element out of place, unknown, or without its name.
Files ==
    { OneSection(<<category>>) : category \in XCategories \cup XBadCategories }
    \cup { OneSection(<<first, second>>) :
              first \in {c \in XCategories : c.attributes["type"] = "true_or_false"},
              second \in XBadCategories }
    \cup { OneSection(pair) :
              pair \in {p \in XBadCategories \X XBadCategories : p[1] # p[2]} }
    \cup { XTestBank("bank", << XChapter("c1", << XSection("c1s1", <<bad>>) >>),
                                XChapter("c2", <<>>) >>) : bad \in XBadCategories }
    \cup { XTestBank("bank", << XChapter("c1", <<>>),
                                XChapter("c2", << XSection("c2s1", <<bad>>) >>) >>) :
            bad \in XBadCategories }
    \cup Misplaced
    \cup { XTestBank("bank", <<>>),
           XTestBank("bank", << XChapter("c1", <<>>) >>),
           XTestBank("bank", << XChapter("c1", << XSection("c1s1", <<>>) >>),
                                XChapter("c2", <<>>) >>),
           OneSection(<<>>),
           XTestBank("bank", << XSection("c1s1", <<>>) >>),
           XChapter("c1", <<>>),
           Element("quiz", NoAttributes, "", <<>>),
           Element("testbank", NoAttributes, "", <<>>) }

\* Trees a caller makes with the node classes: those of the sessions, and
\* trees with a category whose attr was set to something else afterwards,
\* its fact being good or without an answer.
Trees ==
    Documents
    \cup { TestBankNode("bank", << ChapterNode("c1", << SectionNode("c1s1",
              << CategoryNode(attr, << FactNode(None, <<"q1">>, <<>>) >>),
                 CategoryNode("matching", <<>>) >>) >>) >>) :
           attr \in {"essay", "matching"} }
    \cup { TestBankNode("bank", << ChapterNode("c1", << SectionNode("c1s1",
              << CategoryNode(attr, << FactNode(None, <<"q1">>, <<"True">>) >>) >>) >>) >>) :
           attr \in {"essay", None} }
    \cup { TestBankNode("bank", << ChapterNode("c1", << SectionNode("c1s1",
              << TrueFalseCategory >>) >>), ChapterNode("c2", <<>>) >>) }

BankInit ==
    /\ \/ document \in Files /\ bank = None /\ pc = "file"
       \/ document = NoFile /\ bank \in Trees /\ pc = "parsed"
    /\ test = NoTest
    /\ built = <<>>
    /\ build_calls = <<>>
    /\ done = FALSE /\ last_exit = ""
    /\ chapter_i = 0 /\ section_i = 0 /\ question_i = 0
    /\ q_and_a = <<>>
    /\ unittest_report = 0 /\ chapter_report = 0 /\ section_report = 0
    /\ reports = <<>>
    /\ questions = <<>>
    /\ events = <<>>
    /\ gens = <<>>
    /\ last = Call("init", 0, NoError, Nothing)

bank_unchanged ==
    UNCHANGED <<done, last_exit, document, chapter_i, section_i, q_and_a, question_i,
                unittest_report, chapter_report, section_report,
                reports, questions, events, gens>>

\* QuizMe.start, line 128: bank = testbank.BankParser.parse(str(path))
Parse ==
    /\ pc = "file"
    /\ LET out == parse(document)
       IN  /\ bank' = out.value
           /\ pc' = IF out.error = NoError THEN "parsed" ELSE "failed"
           /\ last' = Call("parse", 0, out.error, Nothing)
    /\ UNCHANGED <<test, built, build_calls>>
    /\ bank_unchanged

\* QuizMe.start, line 129: engine = teach_me.FAQ(bank)
Load ==
    /\ pc = "parsed"
    /\ LET out == FAQ(bank)
       IN  /\ test' = IF out.error = NoError THEN out.value ELSE NoTest
           /\ built' = IF out.error = NoError
                       THEN [place \in CategoryPlaces(out.value) |-> <<>>]
                       ELSE <<>>
           /\ pc' = IF out.error = NoError THEN "loaded" ELSE "failed"
           /\ last' = Call("FAQ", 0, out.error, Nothing)
    /\ UNCHANGED <<bank, build_calls>>
    /\ bank_unchanged

CategoryAt(unittest, place) ==
    unittest.chapters[place[1]].sections[place[2]].categories[place[3]]

\* category.build() on a category that has not been built.
BuildCategory(place) ==
    /\ pc = "loaded"
    /\ built[place] = <<>>
    /\ \E result \in build(CategoryAt(test, place)) :
          /\ built' = [built EXCEPT ![place] = @ \o result.records]
          /\ last' = Call("build", place, result.error, Returned(result.records))
    /\ UNCHANGED <<bank, test, pc, build_calls>>
    /\ bank_unchanged

BankNext ==
    \/ Parse
    \/ Load
    \/ \E place \in DOMAIN built : BuildCategory(place)

BankSpec == BankInit /\ [][BankNext]_vars

----------------------------------------------------------------------------
(***************************************************************************)
(* Claims about the structural model and the builders.                     *)
(***************************************************************************)

\* The categories that have been built, and every Record in their lists.
BuiltPlaces == IF pc = "loaded" THEN DOMAIN built ELSE {}
IsMCM(place) == CategoryAt(test, place).class \in {"Matching", "MultipleChoice"}

\* The facts of a category that ask a question, and the answers of a set of
\* facts, read off the facts themselves.
Asking(facts, question) == {i \in DOMAIN facts : question \in Range(facts[i].questions)}
AnswersOf(facts, which) == UNION {Range(facts[i].answers) : i \in which}
Count(seq, v) == Cardinality({i \in DOMAIN seq : seq[i] = v})

\* A Record of a category fits the group of facts of kind `kind`: the
\* question is asked in it, the answer is correct in it, and the choices
\* are the answer, once, and min(poolSize, C) wrong answers of the group.
FitsGroup(record, facts, kind, C) ==
    LET group == {i \in DOMAIN facts : facts[i].kind = kind}
        correct == AnswersOf(facts, group \cap Asking(facts, record.question))
        poolSize == Cardinality(AnswersOf(facts, group) \ correct)
    IN  /\ group \cap Asking(facts, record.question) # {}
        /\ record.answer \in correct
        /\ Count(record.choices, record.answer) = 1
        /\ Len(record.choices) = Min(poolSize, C) + 1

\* C12: every Record a Matching (C = 25) or MultipleChoice (C = 3) build
\* emits has the correct answer exactly once among its choices and
\* min(poolSize, C) + 1 choices, poolSize being the number of answers of the
\* question's kind group that are not correct for it; and such a build
\* raises nothing, however small the pool.
C12_ChoicesOfARecord ==
    /\ \A place \in BuiltPlaces :
          IsMCM(place) =>
              \A n \in DOMAIN built[place] :
                  \E i \in DOMAIN CategoryAt(test, place).facts :
                      FitsGroup(built[place][n], CategoryAt(test, place).facts,
                                CategoryAt(test, place).facts[i].kind,
                                IF CategoryAt(test, place).class = "Matching" THEN 25 ELSE 3)
    /\ (last.op = "build" /\ IsMCM(last.target)) => last.error = NoError

\* C12's case: a multiple-choice build has emitted a Record of four choices
\* for a question with more than three wrong answers in its group.
C12_Witness ==
    /\ last.op = "build"
    /\ IsMCM(last.target)
    /\ \E n \in DOMAIN built[last.target] :
          /\ Len(built[last.target][n].choices) = 4
          /\ Cardinality(AnswersOf(CategoryAt(test, last.target).facts,
                                   DOMAIN CategoryAt(test, last.target).facts)) > 4

\* C13: every Record a TrueOrFalse build emits has the two choices "True"
\* and "False", in some order, and its correct answer, an answer the
\* category gives to the question, is exactly one of them.
C13_TrueOrFalseChoices ==
    \A place \in BuiltPlaces :
        CategoryAt(test, place).class = "TrueOrFalse" =>
            \A n \in DOMAIN built[place] :
                LET record == built[place][n]
                    facts == CategoryAt(test, place).facts
                IN  /\ Len(record.choices) = 2
                    /\ Range(record.choices) = {"True", "False"}
                    /\ Count(record.choices, record.answer) = 1
                    /\ record.answer \in AnswersOf(facts, Asking(facts, record.question))

\* C13's case: a true/false build has emitted two Records, one whose answer
\* is "True" and one whose answer is "False".
C13_Witness ==
    /\ last.op = "build"
    /\ last.error = NoError
    /\ CategoryAt(test, last.target).class = "TrueOrFalse"
    /\ {built[last.target][n].answer : n \in DOMAIN built[last.target]} = {"True", "False"}

\* C14: when a TrueOrFalse category has a question answered both "True" and
\* "False", build() fails before any Record is emitted: the category's list
\* holds no Record of this build when the failure is raised.
\* The code raises inside the loop that appends: the Records of the
\* questions that come before the ambiguous one are in the list.
C14_NoRecordBeforeFailure ==
    (last.op = "build" /\ last.error = "Question is invalid!")
        => /\ last.value = Returned(<<>>)
           /\ built[last.target] = <<>>

\* A tree breaks a rule of the structural model: a level is empty, a
\* category's type is not one of the three, or a true/false answer is
\* neither "True" nor "False".
Malformed(tree) ==
    \/ tree.children = <<>>
    \/ \E c \in DOMAIN tree.children :
          LET chapter == tree.children[c]
          IN  \/ chapter.children = <<>>
              \/ \E s \in DOMAIN chapter.children :
                    LET section == chapter.children[s]
                    IN  \/ section.children = <<>>
                        \/ \E k \in DOMAIN section.children :
                              LET category == section.children[k]
                              IN  \/ category.attr \notin
                                        {"matching", "multiple_choice", "true_or_false"}
                                  \/ category.children = <<>>
                                  \/ \E f \in DOMAIN category.children :
                                        LET answers == Select(category.children[f].children,
                                                              "answer")
                                        IN  \/ answers = <<>>
                                            \/ /\ category.attr = "true_or_false"
                                               /\ \E a \in DOMAIN answers :
                                                     answers[a].text \notin {"True", "False"}

\* The structural model has the tree's chapters, sections, categories and
\* facts, each with its name or texts, in the order of the tree.
SameOrder(unittest, tree) ==
    /\ unittest.name = tree.attr
    /\ Len(unittest.chapters) = Len(tree.children)
    /\ \A c \in DOMAIN tree.children :
          LET chapter == tree.children[c]
              made == unittest.chapters[c]
          IN  /\ made.name = chapter.attr
              /\ Len(made.sections) = Len(chapter.children)
              /\ \A s \in DOMAIN chapter.children :
                    LET section == chapter.children[s]
                    IN  /\ made.sections[s].name = section.attr
                        /\ Len(made.sections[s].categories) = Len(section.children)
                        /\ \A k \in DOMAIN section.children :
                              LET category == section.children[k]
                                  facts == made.sections[s].categories[k].facts
                              IN  /\ made.sections[s].categories[k].class
                                        = CATEGORY[category.attr]
                                  /\ Len(facts) = Len(category.children)
                                  /\ \A f \in DOMAIN category.children :
                                        LET texts(tag) ==
                                              LET nodes == Select(category.children[f].children, tag)
                                              IN  [i \in DOMAIN nodes |-> nodes[i].text]
                                        IN  /\ facts[f].kind = category.children[f].attr
                                            /\ facts[f].questions = texts("question")
                                            /\ facts[f].answers = texts("answer")

\* C16: FAQ(bank) fails if and only if the tree breaks a rule (an empty unit
\* test, chapter, section, category or answer list of a fact, an unknown
\* category type, a true/false answer that is not "True" or "False");
\* otherwise the structural model has the tree's chapters, sections,
\* categories and facts in document order.
C16_ConstructionFailsIffMalformed ==
    /\ pc = "loaded" => ~Malformed(bank) /\ SameOrder(test, bank)
    /\ (pc = "failed" /\ last.op = "FAQ") => Malformed(bank) /\ last.error # NoError

\* C16's case: construction has failed on a file whose second category has
\* a true/false answer that is not "True" or "False", after a sound category.
C16_Witness ==
    /\ pc = "failed"
    /\ last.op = "FAQ"
    /\ last.error = "Answer is invalid!"
    /\ Len(bank.children[1].children[1].children) = 2

UnknownCategory(tree) ==
    \E c \in DOMAIN tree.children :
        \E s \in DOMAIN tree.children[c].children :
            \E k \in DOMAIN tree.children[c].children[s].children :
                tree.children[c].children[s].children[k].attr
                    \notin {"matching", "multiple_choice", "true_or_false"}

\* C17: a category node whose attr is not matching, multiple_choice or
\* true_or_false makes FAQ(bank) fail with the kind of error of the
\* emptiness failures (RuntimeError), which the driver reports as
\* 'Validation Error'.
\* The code raises ValueError, which falls to the driver's last clause.
C17_UnknownCategoryIsValidationError ==
    (last.op = "FAQ" /\ pc = "failed" /\ UnknownCategory(bank))
        => /\ ErrorKind(last.error) = "RuntimeError"
           /\ start_except(last.error) = "Validation Error"

\* C18: the kind of every Record of a Matching or MultipleChoice build is
\* the kind label of a fact that asks the Record's question.
\* The code gives the Record the name of the category class.
C18_RecordKindIsFactLabel ==
    \A place \in BuiltPlaces :
        IsMCM(place) =>
            \A n \in DOMAIN built[place] :
                \E i \in Asking(CategoryAt(test, place).facts, built[place][n].question) :
                    built[place][n].kind = CategoryAt(test, place).facts[i].kind

\* The kind label a fact has in the file: its type attribute.
Label(fact) == IF "type" \in DOMAIN fact.attributes THEN fact.attributes["type"] ELSE None
Texts_of(fact, name) ==
    {fact.children[i].text : i \in {j \in DOMAIN fact.children : fact.children[j].name = name}}

\* C19: in a Matching or MultipleChoice category read from a file, every
\* choice of a Record is an answer of a fact with the kind label of a fact
\* that asks the Record's question.
\* The parser drops the label of the facts of a Matching category, so that
\* all its facts are one group.
C19_LabelsDoNotMix ==
    (pc = "loaded" /\ document.name # None) =>
        \A place \in DOMAIN built :
            IsMCM(place) =>
                LET facts == document.children[place[1]].children[place[2]]
                                .children[place[3]].children
                IN  \A n \in DOMAIN built[place] :
                        \A choice \in Range(built[place][n].choices) :
                            \E asks, gives \in DOMAIN facts :
                                /\ built[place][n].question \in Texts_of(facts[asks], "question")
                                /\ choice \in Texts_of(facts[gives], "answer")
                                /\ Label(facts[asks]) = Label(facts[gives])

\* C15: every structural validation error, an ambiguous true/false question
\* included, is raised by FAQ(bank): once FAQ has been made, no pull of its
\* event sequence fails with a validation error (RuntimeError), and no event
\* is emitted for a document with such a question.
\* The code finds the ambiguous question in build(), which runs when the
\* session reaches the section.
C15_ValidatedBeforeSession ==
    /\ last.op = "next" => ErrorKind(last.error) # "RuntimeError"
    /\ ~Valid(test) => events = <<>>

----------------------------------------------------------------------------
(***************************************************************************)
(* RestartSpec: iter() is called again on the same FAQ once its generator  *)
(* has ended.  The new generator has its own locals and Reports; the       *)
(* categories, and their q_and_a lists, are those of the FAQ.  events and  *)
(* questions go on recording what every generator of the FAQ yields.       *)
(***************************************************************************)
MaxSessions == 2

\* iter(engine): a new generator object of FAQ.__iter__, not yet started.
Restart ==
    /\ pc \in {"returned", "raised"}
    /\ Sessions < MaxSessions
    /\ pc' = "start"
    /\ chapter_i' = 0 /\ section_i' = 0 /\ question_i' = 0
    /\ q_and_a' = <<>>
    /\ unittest_report' = 0 /\ chapter_report' = 0 /\ section_report' = 0
    /\ last' = Call("iter", 0, NoError, Nothing)
    /\ UNCHANGED <<done, last_exit, document, bank, test, built, build_calls, reports, questions, events, gens>>

RestartNext ==
    \/ Start
    \/ Resume33
    \/ Resume36
    \/ Resume39
    \/ Resume47
    \/ Resume48
    \/ Resume50
    \/ Resume51
    \/ Resume53
    \/ Resume54
    \/ Resume56
    \/ ResumeClosed
    \/ Restart

RestartSpec == Init /\ [][RestartNext]_vars

\* The first Exit event after place i of events, or 0.
NextExit(i) ==
    LET later == {j \in DOMAIN events : j > i /\ events[j].type = "Exit"}
    IN  IF later = {} THEN 0 ELSE CHOOSE j \in later : \A k \in later : j <= k

\* C20: the built records of a category are made anew for each session: a
\* section emits as many Question events in a second session of the same
\* FAQ as it did in the first.
\* The code appends to the list the category keeps, and the section asks
\* every Record in it.
C20_SameQuestionsEverySession ==
    \A i, j \in DOMAIN events :
        (/\ events[i].type = "Enter" /\ events[i].kind = "Section"
         /\ events[j].type = "Enter" /\ events[j].kind = "Section"
         /\ events[i].name = events[j].name
         /\ NextExit(i) # 0 /\ NextExit(j) # 0)
            => NextExit(i) - i = NextExit(j) - j

----------------------------------------------------------------------------
(***************************************************************************)
(* Claims about the session: building, answering and the reports.          *)
(***************************************************************************)

\* The sections of the unit test in document order, by <<chapter, section>>,
\* and the categories of one of them.
AllSections(unittest) ==
    Flatten([c \in DOMAIN unittest.chapters |->
                [s \in DOMAIN unittest.chapters[c].sections |-> <<c, s>>]])
PlacesOf(unittest, at) ==
    [k \in DOMAIN unittest.chapters[at[1]].sections[at[2]].categories |->
        <<at[1], at[2], k>>]

\* The sections whose Enter event has been emitted, and those of them after
\* whose Enter event the driver has asked for the next event.
EnteredSections ==
    Len(SelectSeq(events, LAMBDA event : event.type = "Enter" /\ event.kind = "Section"))
ResumedSections == IF pc = "l39" THEN EnteredSections - 1 ELSE EnteredSections

\* The categories build() has been called on, in the order of the calls.
Called == [i \in DOMAIN build_calls |-> build_calls[i].place]

SessionOf(i) ==
    Cardinality({j \in 1..i : events[j].type = "Enter" /\ events[j].kind = "UnitTest"})
SectionNamed(name) ==
    CHOOSE at \in Range(AllSections(test)) :
        test.chapters[at[1]].sections[at[2]].name = name

\* The Records asked between the Enter event of a section at place i of
\* events and its Exit event, and the Records the section's categories built
\* in the session of that event.
AskedAfter(i) ==
    LET asked == SelectSeq(SubSeq(events, i + 1, NextExit(i) - 1),
                           LAMBDA event : event.type = "Question")
    IN  [n \in DOMAIN asked |-> questions[asked[n].id].q_and_a]
BuiltFor(i) ==
    LET at == SectionNamed(events[i].name)
        calls == SelectSeq(build_calls,
                           LAMBDA call : /\ call.session = SessionOf(i)
                                         /\ call.place[1] = at[1]
                                         /\ call.place[2] = at[2])
    IN  Flatten([n \in DOMAIN calls |-> calls[n].records])

\* C22: the Question events of a section are a permutation of the Records
\* its categories built in that session: as many Questions as Records, every
\* Record asked as often as it was built, and every Question bound to the
\* Report emitted after the section's Exit event.
\* The code asks every Record in the lists the categories keep, those built
\* in earlier sessions of the same FAQ included.
C22_QuestionsArePermutation ==
    \A i \in DOMAIN events :
        (events[i].type = "Enter" /\ events[i].kind = "Section" /\ NextExit(i) # 0)
            => /\ Len(AskedAfter(i)) = Len(BuiltFor(i))
               /\ \A record \in Range(AskedAfter(i)) \cup Range(BuiltFor(i)) :
                      Count(AskedAfter(i), record) = Count(BuiltFor(i), record)
               /\ \A j \in (i + 1)..(NextExit(i) - 1) :
                      NextExit(i) < Len(events)
                          => questions[events[j].id].report = events[NextExit(i) + 1].id

----------------------------------------------------------------------------
(***************************************************************************)
(* DriverSpec: QuizMe.execute_quiz of __init__.py drives one session.      *)
(* start() schedules execute_quiz once; each call pulls one event and      *)
(* handles it in a modal dialog, and the dialog's apply() schedules the    *)
(* next call through the deferred root, so that call runs after the        *)
(* present one has returned.  A dialog the user closes schedules nothing.  *)
(***************************************************************************)

\* list(generator): next() until the generator ends.
RECURSIVE Drain(_, _, _)
Drain(rs, g, got) ==
    LET step == get_problems_next(rs, g)
    IN  IF step.error = NoError
        THEN Drain(rs, step.gen, Append(got, step.value[1]))
        ELSE [error |-> IF step.error = "StopIteration" THEN NoError ELSE step.error,
              list |-> got, gen |-> step.gen]

\* What a call of execute_quiz leaves: whether a dialog scheduled the next
\* call, and the problems a ReviewProblems dialog listed.
Handled(callback, problems) == Returned([callback |-> callback, problems |-> problems])

\* A call of execute_quiz is due: start() or a dialog's apply() scheduled it.
Scheduled ==
    \/ last.op = "iter"
    \/ last.op = "execute_quiz" /\ last.error = NoError /\ last.value[1].callback

\* execute_quiz has pulled with next_event() and not yet handled the outcome.
Pulled == last.op = "next"
PulledEvent == last.value[1]

driver_unchanged ==
    UNCHANGED <<document, bank, test, built, build_calls, pc, chapter_i, section_i,
                q_and_a, question_i, unittest_report, chapter_report, section_report,
                events>>

\* Lines 163-165: the generator is exhausted.
ExhaustedPull(flag) == IF ~flag THEN "Final event not processed!" ELSE NoError

HandleStopIteration ==
    /\ Pulled /\ last.error = "StopIteration"
    /\ last' = Call("execute_quiz", 0, ExhaustedPull(done), Handled(FALSE, <<>>))
    /\ driver_unchanged
    /\ UNCHANGED <<done, last_exit, reports, questions, gens>>

\* Lines 161-162: any other exception of next_event() leaves execute_quiz.
HandleException ==
    /\ Pulled /\ last.error \notin {NoError, "StopIteration"}
    /\ last' = Call("execute_quiz", 0, last.error, Handled(FALSE, <<>>))
    /\ driver_unchanged
    /\ UNCHANGED <<done, last_exit, reports, questions, gens>>

\* Lines 167-171: ShowStatus closes itself with ok(), or the user closes it.
HandleStatus(ok) ==
    /\ Pulled /\ last.error = NoError
    /\ PulledEvent.type \in {"Enter", "Exit"}
    /\ last_exit' = IF PulledEvent.type = "Exit" THEN PulledEvent.kind ELSE last_exit
    /\ last' = Call("execute_quiz", 0, NoError, Handled(ok, <<>>))
    /\ driver_unchanged
    /\ UNCHANGED <<done, reports, questions, gens>>

\* Lines 172-173: AskQuestion.click(choice) answers with the text of the
\* button and calls ok().
HandleQuestion(choice) ==
    /\ Pulled /\ last.error = NoError
    /\ PulledEvent.type = "Question"
    /\ choice \in Range(questions[PulledEvent.id].choices)
    /\ LET q == PulledEvent.id
           out == answer(reports, questions[q], StrArg(choice))
       IN  /\ reports' = out.reports
           /\ questions' = [questions EXCEPT ![q].answered = out.answered]
           /\ last' = Call("execute_quiz", q, out.error, Handled(out.error = NoError, <<>>))
    /\ driver_unchanged
    /\ UNCHANGED <<done, last_exit, gens>>

\* Lines 172-173: the user closes AskQuestion without an answer.
HandleQuestionClosed ==
    /\ Pulled /\ last.error = NoError
    /\ PulledEvent.type = "Question"
    /\ last' = Call("execute_quiz", PulledEvent.id, NoError, Handled(FALSE, <<>>))
    /\ driver_unchanged
    /\ UNCHANGED <<done, last_exit, reports, questions, gens>>

\* Lines 184-190: the terminal Report has been handled.
AfterReport_forgets(flag, rs, r) == flag

AfterReport(flag, rs, r) == flag \/ final(rs, r)

\* gui_logs.ShowReport.body, line 275: the percentage of a Report.
Percentage(rs, r) ==
    IF total(rs, r).value[1] = 0
    THEN Outcome("ZeroDivisionError", rs, Nothing)
    ELSE Outcome(NoError, rs,
                 Returned((200 * right(rs, r).value[1] + total(rs, r).value[1])
                              \div (2 * total(rs, r).value[1])))

\* Lines 174-190: a section's Report with wrong answers is reviewed first;
\* ShowReport follows unless the review was closed; done is set for the
\* terminal Report whenever the dialogs returned.
HandleReport(reviewed, ok) ==
    /\ Pulled /\ last.error = NoError
    /\ PulledEvent.type = "Report"
    /\ LET r == PulledEvent.id
           review_first == last_exit = "Section" /\ wrong(reports, r).value[1] # 0
           listed == Drain(reports, get_problems(r), <<>>)
           shown == review_first => reviewed
           problems == IF review_first THEN listed.list ELSE <<>>
       IN  /\ ~review_first => reviewed
           /\ ~shown => ~ok
           /\ gens' = IF review_first THEN Append(gens, listed.gen) ELSE gens
           /\ IF shown /\ Percentage(reports, r).error # NoError
              THEN /\ ~ok
                   /\ last' = Call("execute_quiz", r, Percentage(reports, r).error,
                                   Handled(FALSE, problems))
                   /\ done' = done
              ELSE /\ last' = Call("execute_quiz", r, NoError, Handled(ok, problems))
                   /\ done' = AfterReport(done, reports, r)
    /\ driver_unchanged
    /\ UNCHANGED <<last_exit, reports, questions>>

\* The texts on the buttons of the AskQuestion dialogs.
Buttons == {"True", "False", "a1", "a2"}

DriverNext ==
    \/ Scheduled /\ Start
    \/ Scheduled /\ Resume33
    \/ Scheduled /\ Resume36
    \/ Scheduled /\ Resume39
    \/ Scheduled /\ Resume47
    \/ Scheduled /\ Resume48
    \/ Scheduled /\ Resume50
    \/ Scheduled /\ Resume51
    \/ Scheduled /\ Resume53
    \/ Scheduled /\ Resume54
    \/ Scheduled /\ Resume56
    \/ HandleStopIteration
    \/ HandleException
    \/ \E ok \in BOOLEAN : HandleStatus(ok)
    \/ \E choice \in Buttons : HandleQuestion(choice)
    \/ HandleQuestionClosed
    \/ \E reviewed, ok \in BOOLEAN : HandleReport(reviewed, ok)

DriverSpec == Init /\ [][DriverNext]_vars

\* C23: in execute_quiz a pull of the exhausted event sequence is the error
\* 'Final event not processed!' unless done is set, and in the runs of the
\* driver, in which every event pulled is handled before the next is
\* pulled, done is set before the exhausted pull: the error is never raised.
C23_FinalEventProcessed ==
    /\ last.error # "Final event not processed!"
    /\ (Pulled /\ last.error = "StopIteration") => done
    /\ (last.op = "execute_quiz" /\ last.error = ExhaustedPull(FALSE)) => ~done
    /\ pc = "returned" => done

\* C23 witness: the driver has pulled the exhausted sequence and returned
\* without an error.
C23_Witness ==
    /\ pc = "returned"
    /\ last.op = "execute_quiz" /\ last.error = NoError
    /\ done
    /\ \E q \in DOMAIN questions : questions[q].answered

----------------------------------------------------------------------------
(***************************************************************************)
(* Claims about the reports of a session.                                  *)
(***************************************************************************)

\* The Reports finalized by a step.
Finalizing == {r \in DOMAIN reports : ~reports[r].finalized /\ reports'[r].finalized}

\* C24: in a session every Report is finalized strictly after all of its
\* child Reports: a finalized Report has no open child, a step finalizes one
\* Report at most and none that has an open child, and a finalized Report
\* is never changed again, so no roll-up reaches it.
C24_FinalizedAfterChildren ==
    /\ [](\A r, child \in DOMAIN reports :
            (reports[r].finalized /\ reports[child].parent = r) => reports[child].finalized)
    /\ [][/\ Cardinality(Finalizing) <= 1
          /\ \A r \in Finalizing : ~HasOpenChild(reports, r)
          /\ \A r \in DOMAIN reports : reports[r].finalized => reports'[r] = reports[r]]_vars

\* C24 witness: the session has ended, and the UnitTest Report holds the
\* answers rolled up through its chapters.
C24_Witness ==
    /\ pc = "returned"
    /\ Len(reports) >= 4
    /\ \A r \in DOMAIN reports : reports[r].finalized
    /\ \E r \in DOMAIN reports :
          reports[r].parent = NoParent /\ reports[r].right + reports[r].wrong = 2

\* What a Report has counted and kept.
Tally(report) == <<report.right, report.wrong, report.problems>>

\* C25: a successful answer() on a Question changes the Report of the
\* Question's section and no other: it adds one to right, or it adds one to
\* wrong and appends one problem, that of the Question's Record; a Chapter
\* or UnitTest Report changes its counts and problems only in a step that
\* finalizes one of its child Reports, and a Section Report only by an
\* answer to one of its own Questions.
C25_AnswerTouchesOwnReport ==
    [][/\ \A q \in DOMAIN questions :
            (Calls("answer", q) /\ last'.error = NoError)
                => LET r == questions[q].report
                       old == reports[r]
                       new == reports'[r]
                   IN  /\ old.level = "Section"
                       /\ DOMAIN reports' = DOMAIN reports
                       /\ \A other \in DOMAIN reports \ {r} : reports'[other] = reports[other]
                       /\ \/ new = [old EXCEPT !.right = @ + 1]
                          \/ \E given \in Range(questions[q].choices) \cup Texts :
                                /\ given # questions[q].right
                                /\ new = [old EXCEPT
                                            !.wrong = @ + 1,
                                            !.problems = Append(@, <<questions[q].q_and_a, given>>)]
       /\ \A r \in DOMAIN reports :
            Tally(reports'[r]) # Tally(reports[r])
                => IF reports[r].level = "Section"
                   THEN \E q \in DOMAIN questions :
                           Calls("answer", q) /\ questions[q].report = r
                   ELSE \E child \in Finalizing : reports[child].parent = r]_vars

\* C25 witness: a wrong answer was just counted and kept by the Report of
\* the second section, the Reports of the first section, the chapter and
\* the unit test being there too.
C25_Witness ==
    /\ last.op = "answer" /\ last.error = NoError
    /\ Len(reports) >= 4
    /\ LET r == questions[last.target].report
       IN  /\ reports[r].wrong = 1 /\ Len(reports[r].problems) = 1
           /\ \E other \in DOMAIN reports :
                 /\ other # r /\ reports[other].level = "Section"
                 /\ reports[other].right = 1

\* C26: an answer() call that fails has no effect: no Report and no
\* Question changes; when it failed because the section's Report is
\* finalized or the index is outside choices, the Question is still
\* unanswered; and every answer() on a Question whose section Report is
\* finalized, as it is once its Report event was pulled, fails.
C26_FailedAnswerChangesNothing ==
    [][\A q \in DOMAIN questions :
          Calls("answer", q)
              => /\ last'.error # NoError
                    => /\ reports' = reports
                       /\ questions' = questions
                       /\ last'.error \in {"Report is finalized!", "IndexError"}
                              => ~questions'[q].answered
                 /\ reports[questions[q].report].finalized => last'.error # NoError
                 /\ (\E i \in DOMAIN events :
                        events[i].type = "Report" /\ events[i].id = questions[q].report)
                       => last'.error # NoError]_vars

\* C26 witness: a text not among the choices was given for a Question after
\* its section's Report event was pulled; the call failed, the Question is
\* unanswered, and the Report holds what was answered in time.
C26_Witness ==
    /\ last.op = "answer" /\ last.error = "Report is finalized!"
    /\ ~questions[last.target].answered
    /\ LET r == questions[last.target].report
       IN  /\ \E i \in DOMAIN events : events[i].type = "Report" /\ events[i].id = r
           /\ reports[r].right + reports[r].wrong = 1

----------------------------------------------------------------------------
(***************************************************************************)
(* Claims about the Records of Matching and MultipleChoice builds.         *)
(***************************************************************************)

\* The facts of a kind, read off the facts themselves, the answers they
\* give to a question and all the questions they ask.
GroupOf(facts, kind) == {i \in DOMAIN facts : facts[i].kind = kind}
CorrectIn(facts, kind, question) ==
    AnswersOf(facts, GroupOf(facts, kind) \cap Asking(facts, question))
QuestionsOf(facts, kind) == UNION {Range(facts[i].questions) : i \in GroupOf(facts, kind)}

\* C27: in every Record of a Matching or MultipleChoice build the choices
\* are pairwise distinct, the recorded correct answer is an answer the
\* question has in its kind group, and every other choice is an answer of
\* that group which is not correct for the question there: exactly one of
\* the choices shown is correct.
C27_OneCorrectChoice ==
    \A place \in BuiltPlaces :
        IsMCM(place) =>
            \A n \in DOMAIN built[place] :
                LET record == built[place][n]
                    facts == CategoryAt(test, place).facts
                IN  \E i \in DOMAIN facts :
                        LET kind == facts[i].kind
                            correct == CorrectIn(facts, kind, record.question)
                        IN  /\ \A a, b \in DOMAIN record.choices :
                                  record.choices[a] = record.choices[b] => a = b
                            /\ record.answer \in correct
                            /\ record.answer \in Range(record.choices)
                            /\ \A choice \in Range(record.choices) \ {record.answer} :
                                  choice \in AnswersOf(facts, GroupOf(facts, kind)) \ correct
                            /\ Cardinality({a \in DOMAIN record.choices :
                                               record.choices[a] \in correct}) = 1

\* C27 witness: a Record was built for a question that has two correct
\* answers, with a wrong answer beside the correct one.
C27_Witness ==
    /\ last.op = "build" /\ IsMCM(last.target)
    /\ \E n \in DOMAIN built[last.target] :
          LET record == built[last.target][n]
              facts == CategoryAt(test, last.target).facts
          IN  /\ Cardinality(AnswersOf(facts, Asking(facts, record.question))) = 2
              /\ Len(record.choices) = 2

\* The first fact of a kind, and the Records due before those of the kind:
\* one for each question of each kind that comes first.
FirstOf(facts, kind) ==
    CHOOSE i \in GroupOf(facts, kind) : \A j \in GroupOf(facts, kind) : i <= j
Offset(facts, kind) ==
    Cardinality(UNION { {<<facts[i].kind, question>> :
                            question \in QuestionsOf(facts, facts[i].kind)} :
                        i \in {j \in DOMAIN facts :
                                 FirstOf(facts, facts[j].kind) < FirstOf(facts, kind)} })

\* C28: a first build() of a Matching or MultipleChoice category appends,
\* kind group after kind group in the order the kinds first appear, one
\* Record for each distinct question text of the group; the correct answers
\* of a question asked by several facts of a kind are those of all these
\* facts: the Record's answer is one of them and none of the others is
\* shown as a wrong choice.
C28_OneRecordPerQuestionOfAKind ==
    (last.op = "build" /\ IsMCM(last.target))
        => LET records == built[last.target]
               facts == CategoryAt(test, last.target).facts
           IN  /\ \A i \in DOMAIN facts :
                     LET kind == facts[i].kind
                         asked == QuestionsOf(facts, kind)
                         from == Offset(facts, kind)
                     IN  /\ Len(records) >= from + Cardinality(asked)
                         /\ {records[n].question :
                                n \in (from + 1)..(from + Cardinality(asked))} = asked
                         /\ \A n \in (from + 1)..(from + Cardinality(asked)) :
                               Range(records[n].choices)
                                   \cap CorrectIn(facts, kind, records[n].question)
                                       = {records[n].answer}
               /\ Len(records) =
                     Cardinality(UNION { {<<facts[i].kind, question>> :
                                            question \in Range(facts[i].questions)} :
                                         i \in DOMAIN facts })

\* C28 witness: a category was built in which two facts of one kind ask
\* the same question, and it got one Record for each of its two questions.
C28_Witness ==
    /\ last.op = "build" /\ IsMCM(last.target) /\ last.error = NoError
    /\ Len(built[last.target]) = 2
    /\ LET facts == CategoryAt(test, last.target).facts
       IN  \E i, j \in DOMAIN facts :
              /\ i # j /\ facts[i].kind = facts[j].kind
              /\ Range(facts[i].questions) \cap Range(facts[j].questions) # {}

----------------------------------------------------------------------------
(***************************************************************************)
(* Claims about the review of a session's problems.                        *)
(***************************************************************************)

\* A review entry is that of a stored problem: it carries the category, the
\* question and the correct answer of the problem's Record and the answer
\* that was given.
EntryOf(entry, problem) ==
    /\ entry.category = problem[1].kind
    /\ entry.question = problem[1].question
    /\ entry.right = problem[1].answer
    /\ entry.answer = problem[2]

\* C29: on a finalized Report a call of get_problems() yields, from the
\* start, one review entry per stored problem in the order the problems were
\* recorded, each with the category, question and correct answer of its
\* Record and the answer given, which is never the correct answer; the list
\* the ReviewProblems dialog of a section's Report has made of them is that
\* list.
C29_ProblemsInOrder ==
    /\ \A r \in DOMAIN reports :
          reports[r].finalized
              => LET listed == Drain(reports, get_problems(r), <<>>)
                 IN  /\ listed.error = NoError
                     /\ Len(listed.list) = Len(reports[r].problems)
                     /\ \A i \in DOMAIN listed.list :
                           /\ EntryOf(listed.list[i], reports[r].problems[i])
                           /\ listed.list[i].answer # listed.list[i].right
    /\ (last.op = "execute_quiz" /\ last.error = NoError /\ last.target \in DOMAIN reports
          /\ last.value[1].problems # <<>>)
          => /\ Len(last.value[1].problems) = Len(reports[last.target].problems)
             /\ \A i \in DOMAIN last.value[1].problems :
                   EntryOf(last.value[1].problems[i], reports[last.target].problems[i])

\* C29 witness: the dialog has listed the two problems of a section, and
\* they are different ones.
C29_Witness ==
    /\ last.op = "execute_quiz" /\ last.error = NoError
    /\ Len(last.value[1].problems) = 2
    /\ last.value[1].problems[1] # last.value[1].problems[2]

----------------------------------------------------------------------------
(***************************************************************************)
(* Claims about the order in which construction finds violations.          *)
(***************************************************************************)

\* The violations of a tree, each at the path of child positions that leads
\* to its node: a level without children, a category of a type that is not
\* known, a fact without an answer, a child of a fact that is neither
\* question nor answer, a true/false answer that is neither "True" nor "False".
Violation(path, error) == [path |-> path, error |-> error]
Violations(tree) ==
    LET chapters == DOMAIN tree.children
        sections(c) == DOMAIN tree.children[c].children
        categories(c, s) == DOMAIN tree.children[c].children[s].children
        category(c, s, k) == tree.children[c].children[s].children[k]
        known(c, s, k) == category(c, s, k).attr \in DOMAIN CATEGORY
        facts(c, s, k) == DOMAIN category(c, s, k).children
        fact(c, s, k, f) == category(c, s, k).children[f]
    IN  (IF tree.children = <<>> THEN {Violation(<<>>, "UnitTest is empty!")} ELSE {})
        \cup { Violation(<<c>>, "Chapter is empty!") :
                 c \in {c \in chapters : tree.children[c].children = <<>>} }
        \cup UNION { { Violation(<<c, s>>, "Section is empty!") :
                         s \in {s \in sections(c) :
                                  tree.children[c].children[s].children = <<>>} } :
                     c \in chapters }
        \cup UNION { UNION { { Violation(<<c, s, k>>,
                                         IF known(c, s, k) THEN "Category is empty!"
                                         ELSE "ValueError") :
                                 k \in {k \in categories(c, s) :
                                          \/ ~known(c, s, k)
                                          \/ category(c, s, k).children = <<>>} } :
                             s \in sections(c) } :
                     c \in chapters }
        \cup UNION { UNION { UNION {
                 { Violation(<<c, s, k, f>>, "Fact is empty!") :
                     f \in {f \in facts(c, s, k) :
                              Select(fact(c, s, k, f).children, "answer") = <<>>} }
                 \cup UNION { { Violation(<<c, s, k, f, a>>,
                                          IF fact(c, s, k, f).children[a].tag = "answer"
                                          THEN "Answer is invalid!" ELSE "TypeError") :
                                  a \in {a \in DOMAIN fact(c, s, k, f).children :
                                           LET child == fact(c, s, k, f).children[a]
                                           IN  \/ child.tag \notin {"question", "answer"}
                                               \/ /\ child.tag = "answer"
                                                  /\ category(c, s, k).attr = "true_or_false"
                                                  /\ child.text \notin {"True", "False"}} } :
                              f \in facts(c, s, k) } :
                 k \in categories(c, s) } : s \in sections(c) } : c \in chapters }

\* The place of a violation in the walk: after everything inside its node,
\* or, for the type of a category when it is looked up first, before it.
AfterChildren(violation, type_first) ==
    ~(type_first /\ violation.error = "ValueError")

\* The node at path p with its place (after its children or before them)
\* comes before the node at path q with its place.
RECURSIVE Lex(_, _, _, _)
Lex(p, p_after, q, q_after) ==
    IF p = <<>> THEN q # <<>> /\ ~p_after
    ELSE IF q = <<>> THEN q_after
    ELSE IF Head(p) = Head(q) THEN Lex(Tail(p), p_after, Tail(q), q_after)
    ELSE Head(p) < Head(q)

\* The error of the violation whose place comes first.
FirstViolation(tree, type_first) ==
    IF Violations(tree) = {} THEN NoError
    ELSE (CHOOSE v \in Violations(tree) :
            \A w \in Violations(tree) \ {v} :
                Lex(v.path, AfterChildren(v, type_first),
                    w.path, AfterChildren(w, type_first))).error

\* C30 as it is stated: construction stops at the first violation in
\* depth-first document order, every node after all that is inside it: of a
\* violation inside a node and one at an enclosing or later node, the error
\* raised is that of the nested, earlier one.
\* The code looks the type of a category up before it makes the facts.
C30_NestedViolationFirst ==
    last.op = "FAQ" => last.error = FirstViolation(bank, FALSE)

\* C30 amended: the same, except that a category's type comes before the
\* facts of the category: an unknown type is raised whatever is wrong
\* inside the category.
C30_NestedFirstButType ==
    last.op = "FAQ" => last.error = FirstViolation(bank, TRUE)

\* C30 witness: construction has stopped on a tree with a violation inside
\* an earlier node and another at a later node, at the error of the first.
C30_Witness ==
    /\ last.op = "FAQ"
    /\ \E v, w \in Violations(bank) :
          /\ Len(v.path) > Len(w.path)
          /\ Lex(v.path, TRUE, w.path, TRUE)
          /\ v.error # w.error
          /\ last.error = v.error

----------------------------------------------------------------------------
(***************************************************************************)
(* Claims about the parser.                                                *)
(***************************************************************************)

\* The element a kind of element has to be a child of, read off the file:
\* a testbank is the root and nothing else is.
RequiredParent(name) ==
    CASE name = "testbank" -> None
      [] name = "chapter" -> "testbank"
      [] name = "section" -> "chapter"
      [] name = "category" -> "section"
      [] name = "fact" -> "category"
      [] name \in {"question", "answer"} -> "fact"
      [] OTHER -> "nothing"

\* Every element of the file is under its required parent, and every
\* category has one of the three types.
RECURSIVE WellNested(_, _)
WellNested(element, parent) ==
    /\ RequiredParent(element.name) = parent
    /\ element.name = "category"
          => /\ "type" \in DOMAIN element.attributes
             /\ element.attributes["type"] \in {"matching", "multiple_choice", "true_or_false"}
    /\ \A i \in DOMAIN element.children : WellNested(element.children[i], element.name)

\* The node is that of the element, and its children are those of the
\* element's children, one for one in the order of the file.
RECURSIVE Mirror(_, _)
Mirror(node, element) ==
    /\ node.tag = element.name
    /\ node.text = element.text
    /\ Len(node.children) = Len(element.children)
    /\ \A i \in DOMAIN element.children : Mirror(node.children[i], element.children[i])

\* C31: the parser accepts a file only when every element is under its
\* required parent (the testbank at the root and nowhere else) and every
\* category type is one of the three tokens; a file with any other nesting
\* or element name fails the parse; and the tree of a parse that succeeds
\* has every node under the node of its enclosing element, in file order.
C31_ParserEnforcesNesting ==
    last.op = "parse"
        => /\ last.error = NoError => (WellNested(document, None) /\ Mirror(bank, document))
           /\ ~WellNested(document, None) => (last.error # NoError /\ pc = "failed")

\* C31 witness: a file of several facts was parsed into its tree.
C31_Witness ==
    /\ last.op = "parse" /\ last.error = NoError
    /\ \E c \in DOMAIN bank.children :
          \E s \in DOMAIN bank.children[c].children :
              \E k \in DOMAIN bank.children[c].children[s].children :
                  LET facts == bank.children[c].children[s].children[k].children
                  IN  /\ Len(facts) = 3
                      /\ \A f \in DOMAIN facts : Len(facts[f].children) = 2

----------------------------------------------------------------------------
(***************************************************************************)
(* Claims about the counts of the reports.                                 *)
(***************************************************************************)

\* C32: in a session driven through Question.answer() and the generator's
\* finalize calls, every Report, Open or Finalized and at every level, holds
\* as many problems as it has counted wrong answers.
C32_ProblemsMatchWrong ==
    \A r \in DOMAIN reports : Len(reports[r].problems) = reports[r].wrong

\* C32 witness: a section's Report holds a wrong answer while it is Open,
\* beside a Chapter Report that holds the wrong answer of a finalized
\* section and is Open too.
C32_Witness ==
    \E r, c \in DOMAIN reports :
        /\ reports[r].level = "Section" /\ ~reports[r].finalized
        /\ reports[r].wrong = 1
        /\ reports[c].level = "Chapter" /\ ~reports[c].finalized
        /\ reports[c].wrong = 1
        /\ reports[r].parent = c

\* C33: once a Report is Finalized, no operation on it or on its child
\* Reports changes its right count, its wrong count or its problems, a
\* child finalized after its parent included.
C33_FinalizedNeverChanges ==
    [][\A r \in DOMAIN reports :
          reports[r].finalized => Tally(reports'[r]) = Tally(reports[r])]_vars

\* C34: in a session of an accepted document every section emits at least
\* one Question between its Enter and its Exit; so, when every Question
\* emitted has been answered, every Report emitted has a total of at least
\* one and the driver's percentage of a Report never divides by zero.
C34_EverySectionAsks ==
    /\ \A i \in DOMAIN events :
          (events[i].type = "Exit" /\ events[i].kind = "Section")
              => (i > 1 /\ events[i - 1].type = "Question")
    /\ (\A q \in DOMAIN questions : questions[q].answered)
          => \A i \in DOMAIN events :
                events[i].type = "Report" => total(reports, events[i].id).value[1] >= 1
    /\ last.error # "ZeroDivisionError"

====
